---- MODULE Spec2Model ----
(***************************************************************************)
(* A model of flax/core/lift.py: scope-tree deduplication and              *)
(* reduplication (_dedup_scopes, _dup_scopes), the pack adapter            *)
(* (pack.wrapper, scope_fn, repack) and the size inference of vmap/scan.   *)
(*                                                                         *)
(* Scopes are objects with identity: they live in a heap (a sequence of    *)
(* scope records) and a handle is an index into it.  The Scope class       *)
(* itself (flax/core/scope.py) is a collaborator of lift.py; the few       *)
(* primitives used here (push, invalidate, put_variable, in_filter,        *)
(* group_collections, union/intersect_filters, freeze) are modelled from   *)
(* their documented contract and from the way lift.py calls them.          *)
(***************************************************************************)
EXTENDS Naturals, Sequences, FiniteSets, TLC

\* ------------------------------------------------------------------ bounds

\* Longest flattened scope tree handed to _dedup_scopes in SpecDedup.
MaxHandles == 3

\* ----------------------------------------------------------- scope objects

\* `scope.parent is None`
None == 0

\* Names of variable collections, of the variables inside them, of the RNG
\* streams; the values a variable takes; the results a payload returns.
ColNames == {"params", "state"}
VarNames == {"w", "v"}
RngNames == {"dropout"}
Values   == {0, 1}
YValues  == {"y0", "y1"}

\* Iteration order of dict keys (Python dicts iterate in insertion order; the
\* model fixes one order).
KeyOrder == <<"params", "state", "w", "v", "dropout">>

\* A scope object.  variables: collection name -> [frozen, vals] (frozen is
\* isinstance(col, FrozenDict)); mutable: the collection filter of a root;
\* gen: the scope_fn invocation that created it (0: not created by scope_fn).
\* The empty dict `{}`.
EmptyDict == <<>>

\* rngs: stream name -> generator value; rng_counters: stream name -> number
\* of make_rng calls so far.
ScopeRec(parent, name, variables, mutable, gen) ==
  [parent |-> parent, name |-> name, invalid |-> FALSE,
   variables |-> variables, mutable |-> mutable, gen |-> gen,
   rngs |-> EmptyDict, rng_counters |-> EmptyDict]

\* The outer scope forest the flattened input trees draw their handles from:
\*   1 "r1" -+- 2 "b" --- 3 "c"          5 "r2" --- 6 "b"
\*           +- 4 "c"
\* Names are unique among siblings; the same name occurs in several places.
OuterShape ==
  << [parent |-> None, name |-> "r1"], [parent |-> 1, name |-> "b"],
     [parent |-> 2,    name |-> "c"],  [parent |-> 1, name |-> "c"],
     [parent |-> None, name |-> "r2"], [parent |-> 5, name |-> "b"] >>

OuterIds == 1..Len(OuterShape)

\* ------------------------------------------------------------- ancestry

\* a is a proper ancestor of s
RECURSIVE IsAncestor(_, _, _)
IsAncestor(h, a, s) ==
  IF h[s].parent = None THEN FALSE
  ELSE h[s].parent = a \/ IsAncestor(h, a, h[s].parent)

IsSelfOrAncestor(h, a, s) == a = s \/ IsAncestor(h, a, s)

\* The names on the way from a (excluded) down to s, a being s or above it.
RECURSIVE ChainDown(_, _, _)
ChainDown(h, a, s) ==
  IF s = a THEN <<>> ELSE Append(ChainDown(h, a, h[s].parent), h[s].name)

\* scope.root: the parentless scope above s; the names from it (included)
\* down to s.
RECURSIVE TopOf(_, _)
TopOf(h, s) == IF h[s].parent = None THEN s ELSE TopOf(h, h[s].parent)

NamesFromTop(h, s) == <<h[TopOf(h, s)].name>> \o ChainDown(h, TopOf(h, s), s)

\* ------------------------------------------------------- sequence helpers

\* `x in xs` for an ordered container
InSeq(x, xs) == \E i \in 1..Len(xs) : xs[i] = x

\* tuple(reversed(path))
Reverse(s) == [i \in 1..Len(s) |-> s[Len(s) + 1 - i]]

\* `del d[x]` on the keys of an OrderedDict: the other keys keep their order
RECURSIVE DelKey(_, _)
DelKey(xs, x) ==
  IF xs = <<>> THEN <<>>
  ELSE IF Head(xs) = x THEN DelKey(Tail(xs), x)
       ELSE <<Head(xs)>> \o DelKey(Tail(xs), x)

\* The keys of collections.OrderedDict((s, ()) for s in scopes): every scope
\* once, in the order of its first insertion.
RECURSIVE OrderedKeys(_, _)
OrderedKeys(xs, acc) ==
  IF xs = <<>> THEN acc
  ELSE OrderedKeys(Tail(xs),
                   IF InSeq(Head(xs), acc) THEN acc ELSE Append(acc, Head(xs)))

\* ----------------------------------------------------------- _dedup_scopes

\* The `while scope is not None` loop of _dedup_scopes for one leaf.
RECURSIVE WalkParents(_, _, _, _, _, _)
WalkParents(h, scope, path, max_parent, max_parent_path, minimal_set) ==
  IF scope = None
  THEN [max_parent |-> max_parent, max_parent_path |-> max_parent_path]
  ELSE LET hit == InSeq(scope, minimal_set)
       IN  WalkParents(h, h[scope].parent, Append(path, h[scope].name),
                       IF hit THEN scope ELSE max_parent,
                       IF hit THEN Reverse(path) ELSE max_parent_path,
                       minimal_set)

\* The `for leaf in scopes` loop.  `del minimal_set[leaf]` raises KeyError
\* when the leaf has already been removed.
RECURSIVE DedupLoop(_, _, _, _, _)
DedupLoop(h, scopes, i, minimal_set, paths) ==
  IF i > Len(scopes)
  THEN [err |-> "", scopes |-> minimal_set, paths |-> paths]
  ELSE LET leaf == scopes[i]
           w    == WalkParents(h, h[leaf].parent, <<h[leaf].name>>, leaf, <<>>,
                               minimal_set)
       IN  IF w.max_parent # leaf
           THEN IF ~InSeq(leaf, minimal_set)
                THEN [err |-> "KeyError", scopes |-> <<>>, paths |-> <<>>]
                ELSE DedupLoop(h, scopes, i + 1, DelKey(minimal_set, leaf),
                               Append(paths, [root |-> w.max_parent,
                                              path |-> w.max_parent_path]))
           ELSE DedupLoop(h, scopes, i + 1, minimal_set,
                          Append(paths, [root |-> w.max_parent,
                                         path |-> w.max_parent_path]))

_dedup_scopes(h, scopes) == DedupLoop(h, scopes, 1, OrderedKeys(scopes, <<>>), <<>>)

\* ------------------------------------------------------------- _dup_scopes

\* The child of `s` called `name`, or None.
ChildNamed(h, s, name) ==
  IF \E j \in 1..Len(h) : h[j].parent = s /\ h[j].name = name
  THEN CHOOSE j \in 1..Len(h) : h[j].parent = s /\ h[j].name = name
  ELSE None

\* scope.push(name, reuse=True): the same-named child when there is one,
\* else a new child scope (created with no variables of its own).
Push(h, s, name, gen) ==
  IF ChildNamed(h, s, name) # None
  THEN [heap |-> h, scope |-> ChildNamed(h, s, name)]
  ELSE [heap |-> Append(h, ScopeRec(s, name, EmptyDict, h[s].mutable, gen)),
        scope |-> Len(h) + 1]

\* `for name in path: scope = scope.push(name, reuse=True)`
RECURSIVE PushPath(_, _, _, _)
PushPath(h, s, path, gen) ==
  IF path = <<>> THEN [heap |-> h, scope |-> s]
  ELSE LET p == Push(h, s, Head(path), gen)
       IN  PushPath(p.heap, p.scope, Tail(path), gen)

\* mapping = dict(zip(orig_scopes, scopes)); mapping[root]
Mapping(orig_scopes, scopes, root) ==
  LET n == IF Len(orig_scopes) < Len(scopes) THEN Len(orig_scopes) ELSE Len(scopes)
      is == {i \in 1..n : orig_scopes[i] = root}
  IN  scopes[CHOOSE i \in is : \A j \in is : j <= i]

RECURSIVE DupLoop(_, _, _, _, _, _)
DupLoop(h, orig_scopes, scopes, paths, out, gen) ==
  IF paths = <<>> THEN [heap |-> h, scopes |-> out]
  ELSE LET p == PushPath(h, Mapping(orig_scopes, scopes, Head(paths).root),
                         Head(paths).path, gen)
       IN  DupLoop(p.heap, orig_scopes, scopes, Tail(paths),
                   Append(out, p.scope), gen)

_dup_scopes(h, orig_scopes, scopes, paths, gen) ==
  DupLoop(h, orig_scopes, scopes, paths, <<>>, gen)


\* ------------------------------------------------------------ dict helpers

\* The keys of dict d, in iteration order.
Keys(d) == SelectSeq(KeyOrder, LAMBDA k : k \in DOMAIN d)

\* a.update(b)
Update(a, b) ==
  [k \in DOMAIN a \cup DOMAIN b |-> IF k \in DOMAIN b THEN b[k] ELSE a[k]]

\* d[k] = v
SetItem(d, k, v) == [x \in DOMAIN d \cup {k} |-> IF x = k THEN v ELSE d[x]]

\* A collection: a plain dict (frozen = FALSE) or a FrozenDict of variables.
Collection(frozen, vals) == [frozen |-> frozen, vals |-> vals]

\* freeze(collection)
freeze(col) == Collection(TRUE, col.vals)

\* ------------------------------------------------------ collection filters

\* A filter is the set of names it selects: True selects every name, False
\* none, a string its own name, a sequence of strings its members.
TrueFilter == ColNames \cup RngNames

in_filter(col_filter, name) == name \in col_filter

union_filters(a, b) == a \cup b

intersect_filters(a, b) == a \cap b

\* group_collections(xs, col_filters): one group per filter, each collection
\* in the group of the first filter selecting it, the others in no group
\* (repack appends the filter True to collect them, lift.py:145-150).
RECURSIVE group_collections(_, _)
group_collections(xs, col_filters) ==
  IF col_filters = <<>> THEN <<>>
  ELSE LET sel == {c \in DOMAIN xs : in_filter(Head(col_filters), c)}
       IN  <<[c \in sel |-> xs[c]]>>
             \o group_collections([c \in DOMAIN xs \ sel |-> xs[c]],
                                  Tail(col_filters))

\* Faulty variant: all(...) in place of any(...).
col_in_out_all(filters, col_name) ==
  \A i \in 1..Len(filters) : in_filter(filters[i], col_name)

\* any(in_filter(col_filter, col_name) for col_filter in out_variable_filters)
col_in_out(filters, col_name) ==
  \E i \in 1..Len(filters) : in_filter(filters[i], col_name)

\* ------------------------------------------------------- scope primitives

\* inner_scope.invalidate(): marks this one scope object.
invalidate(h, s) == [h EXCEPT ![s].invalid = TRUE]

RECURSIVE InvalidateAll(_, _)
InvalidateAll(h, ss) ==
  IF ss = <<>> THEN h ELSE InvalidateAll(invalidate(h, Head(ss)), Tail(ss))

\* scope.put_variable(col, name, value): refused on an invalidated scope, on a
\* collection the root does not permit to mutate and on a FrozenDict; creates
\* the collection when it is missing.
put_variable(h, s, col, name, value) ==
  IF h[s].invalid THEN [err |-> "invalid scope", heap |-> h]
  ELSE IF ~in_filter(h[TopOf(h, s)].mutable, col)
  THEN [err |-> "not mutable", heap |-> h]
  ELSE IF col \in DOMAIN h[s].variables /\ h[s].variables[col].frozen
  THEN [err |-> "frozen", heap |-> h]
  ELSE LET old == IF col \in DOMAIN h[s].variables
                  THEN h[s].variables[col].vals ELSE EmptyDict
       IN  [err |-> "",
            heap |-> [h EXCEPT ![s].variables =
                        SetItem(@, col, Collection(FALSE, SetItem(old, name, value)))]]

\* scope.make_rng(kind): a fresh value per call, derived from the stream.
make_rng(h, s, kind) ==
  [value |-> <<s, kind, h[s].rng_counters[kind] + 1>>,
   heap  |-> [h EXCEPT ![s].rng_counters[kind] = @ + 1]]

\* ------------------------------------------------------ pack.wrapper: entry

\* "Make sure in only variable collections are frozen" (lift.py:90-98)
FreezeInOnly(variable_groups, out_variable_filters) ==
  [k \in 1..Len(variable_groups) |->
     [c \in DOMAIN variable_groups[k] |->
        IF ~col_in_out(out_variable_filters, c)
        THEN freeze(variable_groups[k][c]) ELSE variable_groups[k][c]]]

\* Faulty variant: a last group collects what no filter selects.
VariableGroupsXsWithRemainder(h, scopes, in_variable_filters, out_variable_filters) ==
  [i \in 1..Len(scopes) |->
     FreezeInOnly(group_collections(h[scopes[i]].variables,
                                    Append(in_variable_filters, TrueFilter)),
                  out_variable_filters)]

\* variable_groups_xs (lift.py:84-98)
VariableGroupsXs(h, scopes, in_variable_filters, out_variable_filters) ==
  [i \in 1..Len(scopes) |->
     FreezeInOnly(group_collections(h[scopes[i]].variables, in_variable_filters),
                  out_variable_filters)]

\* make_rng for every stream of every group of one scope (lift.py:101-104)
RECURSIVE MakeRngs(_, _, _, _)
MakeRngs(h, s, kinds, acc) ==
  IF kinds = <<>> THEN [heap |-> h, rngs |-> acc]
  ELSE LET m == make_rng(h, s, Head(kinds))
       IN  MakeRngs(m.heap, s, Tail(kinds), SetItem(acc, Head(kinds), m.value))

\* rng_groups_xs (lift.py:99-105)
RECURSIVE RngGroupsXs(_, _, _, _)
RngGroupsXs(h, scopes, rng_filters, acc) ==
  IF scopes = <<>> THEN [heap |-> h, rng_groups_xs |-> acc]
  ELSE LET s  == Head(scopes)
           gs == group_collections(h[s].rngs, rng_filters)
           kinds == SelectSeq(Keys(h[s].rngs),
                              LAMBDA k : \E g \in 1..Len(gs) : k \in DOMAIN gs[g])
           m  == MakeRngs(h, s, kinds, EmptyDict)
       IN  RngGroupsXs(m.heap, Tail(scopes), rng_filters,
                       Append(acc, [g \in 1..Len(gs) |->
                                      [k \in DOMAIN gs[g] |-> m.rngs[k]]]))

\* ---------------------------------------------------------------- scope_fn

\* `variables = {}; for variable_group in variable_groups: variables.update(..)`
RECURSIVE MergeGroups(_)
MergeGroups(groups) ==
  IF groups = <<>> THEN EmptyDict
  ELSE Update(Head(groups), MergeGroups(Tail(groups)))

\* `mutable = False; for out_filter in ...: mutable = union_filters(..)`
RECURSIVE UnionAll(_)
UnionAll(filters) ==
  IF filters = <<>> THEN {}
  ELSE union_filters(Head(filters), UnionAll(Tail(filters)))

\* Faulty variant: the canonical outer scopes themselves are handed on, no new Scope
\* is built around a copy of the variables.
InnerRootsNoCopy(h, i, variable_groups_xs, rng_groups_xs, scopes, mutable, acc, gen) ==
  [heap |-> h, scopes |-> scopes]

\* Faulty variant: the filter of the canonical scope itself is intersected,
\* not that of its root.
RECURSIVE InnerRootsOwnMutable(_, _, _, _, _, _, _, _)
InnerRootsOwnMutable(h, i, variable_groups_xs, rng_groups_xs, scopes, mutable, acc, gen) ==
  IF i > Len(variable_groups_xs) \/ i > Len(rng_groups_xs) \/ i > Len(scopes)
  THEN [heap |-> h, scopes |-> acc]
  ELSE LET scope == scopes[i]
           scope_mutable == intersect_filters(h[scope].mutable, mutable)
           inner == [ScopeRec(None, h[scope].name,
                              MergeGroups(variable_groups_xs[i]), scope_mutable, gen)
                       EXCEPT !.rngs = MergeGroups(rng_groups_xs[i])]
       IN  InnerRootsOwnMutable(Append(h, inner), i + 1, variable_groups_xs,
                                rng_groups_xs, scopes, mutable,
                                Append(acc, Len(h) + 1), gen)

\* The loop of lift.py:116-129: one parentless inner scope per canonical
\* scope, holding a copy of the merged groups.
RECURSIVE InnerRoots(_, _, _, _, _, _, _, _)
InnerRoots(h, i, variable_groups_xs, rng_groups_xs, scopes, mutable, acc, gen) ==
  IF i > Len(variable_groups_xs) \/ i > Len(rng_groups_xs) \/ i > Len(scopes)
  THEN [heap |-> h, scopes |-> acc]
  ELSE LET scope == scopes[i]
           scope_mutable == intersect_filters(h[TopOf(h, scope)].mutable, mutable)
           inner == [ScopeRec(None, h[scope].name,
                              MergeGroups(variable_groups_xs[i]), scope_mutable, gen)
                       EXCEPT !.rngs = MergeGroups(rng_groups_xs[i])]
       IN  InnerRoots(Append(h, inner), i + 1, variable_groups_xs, rng_groups_xs,
                      scopes, mutable, Append(acc, Len(h) + 1), gen)

\* scope_fn(variable_groups_xs, rng_groups_xs) as the gen-th invocation.
\* Returns the heap and the new value of the closure variable inner_scopes,
\* which is also the flattened tree handed to the payload.
scope_fn(h, inner_scopes, variable_groups_xs, rng_groups_xs, scopes, paths, out_variable_filters, gen) ==
  LET h1 == InvalidateAll(h, inner_scopes)
      r  == InnerRoots(h1, 1, variable_groups_xs, rng_groups_xs, scopes,
                       UnionAll(out_variable_filters), <<>>, gen)
      d  == _dup_scopes(r.heap, scopes, r.scopes, paths, gen)
  IN  [heap |-> d.heap, inner_scopes |-> d.scopes]

\* ------------------------------------------------------------------ repack

\* Faulty variant: the isinstance(val, FrozenDict) test is missing.
mutable_variables_all(variables) == variables

\* mutable_variables: the collections that are not a FrozenDict
mutable_variables(variables) ==
  [c \in {k \in DOMAIN variables : ~variables[k].frozen} |-> variables[c]]

\* [p for _, p in paths]
PathsOf(paths) == [i \in 1..Len(paths) |-> paths[i].path]

\* Faulty variant: the remainder is not checked and the catch-all group is returned
\* with the others.
RECURSIVE HarvestNoCheck(_, _, _, _)
HarvestNoCheck(h, inner_scopes, out_variable_filters, acc) ==
  IF inner_scopes = <<>>
  THEN [heap |-> h, err |-> "", remainder |-> <<>>, out |-> acc]
  ELSE LET h1 == invalidate(h, Head(inner_scopes))
       IN  HarvestNoCheck(h1, Tail(inner_scopes), out_variable_filters,
             Append(acc, group_collections(
                           mutable_variables(h1[Head(inner_scopes)].variables),
                           Append(out_variable_filters, TrueFilter))))

\* The loop of lift.py:139-150 over the deduplicated inner scopes.
RECURSIVE Harvest(_, _, _, _)
Harvest(h, inner_scopes, out_variable_filters, acc) ==
  IF inner_scopes = <<>>
  THEN [heap |-> h, err |-> "", remainder |-> <<>>, out |-> acc]
  ELSE LET h1 == invalidate(h, Head(inner_scopes))
           out_variable_groups ==
             group_collections(mutable_variables(h1[Head(inner_scopes)].variables),
                               Append(out_variable_filters, TrueFilter))
           remainder == Keys(out_variable_groups[Len(out_variable_groups)])
       IN  IF remainder # <<>>
           THEN [heap |-> h1, err |-> "unmapped output variables",
                 remainder |-> remainder, out |-> <<>>]
           ELSE Harvest(h1, Tail(inner_scopes), out_variable_filters,
                        Append(acc, SubSeq(out_variable_groups, 1,
                                           Len(out_variable_groups) - 1)))

\* The reads of inner_scope._variables the loop of repack makes
\* (lift.py:139-144), in order: the scope read, whether it was valid when
\* repack was called and whether it is invalid when it is read.
RECURSIVE HarvestReads(_, _, _, _, _)
HarvestReads(h0, h, inner_scopes, out_variable_filters, acc) ==
  IF inner_scopes = <<>> THEN acc
  ELSE LET h1 == invalidate(h, Head(inner_scopes))
           read == [scope |-> Head(inner_scopes),
                    was_valid |-> ~h0[Head(inner_scopes)].invalid,
                    invalid |-> h1[Head(inner_scopes)].invalid]
           out_variable_groups ==
             group_collections(mutable_variables(h1[Head(inner_scopes)].variables),
                               Append(out_variable_filters, TrueFilter))
           remainder == Keys(out_variable_groups[Len(out_variable_groups)])
       IN  IF remainder # <<>> THEN Append(acc, read)
           ELSE HarvestReads(h0, h1, Tail(inner_scopes), out_variable_filters,
                             Append(acc, read))

\* The reads of a call repack(inner_scope_tree).
repack_reads(h, inner_scope_tree, paths, out_variable_filters) ==
  LET d == _dedup_scopes(h, inner_scope_tree)
  IN  IF d.err # "" \/ PathsOf(paths) # PathsOf(d.paths) THEN <<>>
      ELSE HarvestReads(h, h, d.scopes, out_variable_filters, <<>>)

\* Faulty variant: the paths are not compared.
repack_unchecked(h, inner_scope_tree, paths, out_variable_filters) ==
  LET d == _dedup_scopes(h, inner_scope_tree)
  IN  IF d.err # ""
      THEN [heap |-> h, err |-> d.err, remainder |-> <<>>, out |-> <<>>]
      ELSE Harvest(h, d.scopes, out_variable_filters, <<>>)

\* repack(inner_scope_tree), the tree given flattened.
repack(h, inner_scope_tree, paths, out_variable_filters) ==
  LET d == _dedup_scopes(h, inner_scope_tree)
  IN  IF d.err # ""
      THEN [heap |-> h, err |-> d.err, remainder |-> <<>>, out |-> <<>>]
      ELSE IF PathsOf(paths) # PathsOf(d.paths)
      THEN [heap |-> h, err |-> "AssertionError", remainder |-> <<>>, out |-> <<>>]
      ELSE Harvest(h, d.scopes, out_variable_filters, <<>>)

\* -------------------------------------------------- pack.wrapper: the end

\* The put_variable calls of lift.py:158-162, in order.
GroupEntries(scope, group) ==
  LET ColEntries(c) ==
        LET ns == Keys(group[c].vals)
        IN  [j \in 1..Len(ns) |->
               [scope |-> scope, col |-> c, name |-> ns[j], value |-> group[c].vals[ns[j]]]]
      RECURSIVE Cat(_)
      Cat(cs) == IF cs = <<>> THEN <<>> ELSE ColEntries(Head(cs)) \o Cat(Tail(cs))
  IN  Cat(Keys(group))

RECURSIVE GroupsEntries(_, _)
GroupsEntries(scope, groups) ==
  IF groups = <<>> THEN <<>>
  ELSE GroupEntries(scope, Head(groups)) \o GroupsEntries(scope, Tail(groups))

\* Faulty variant: every group is written to the first canonical scope.
RECURSIVE WriteEntriesToFirst(_, _)
WriteEntriesToFirst(scopes, out_variable_groups_xs) ==
  IF scopes = <<>> \/ out_variable_groups_xs = <<>> THEN <<>>
  ELSE GroupsEntries(Head(scopes), Head(out_variable_groups_xs))
         \o WriteEntriesToFirst(scopes, Tail(out_variable_groups_xs))

\* zip(scopes, out_variable_groups_xs) and the loops below it.
RECURSIVE WriteEntries(_, _)
WriteEntries(scopes, out_variable_groups_xs) ==
  IF scopes = <<>> \/ out_variable_groups_xs = <<>> THEN <<>>
  ELSE GroupsEntries(Head(scopes), Head(out_variable_groups_xs))
         \o WriteEntries(Tail(scopes), Tail(out_variable_groups_xs))

\* Issue the calls one after the other; the first that raises ends the loop.
RECURSIVE ApplyPuts(_, _, _)
ApplyPuts(h, entries, done) ==
  IF entries = <<>> THEN [heap |-> h, puts |-> done, err |-> ""]
  ELSE LET e == Head(entries)
           r == put_variable(h, e.scope, e.col, e.name, e.value)
       IN  IF r.err # ""
           THEN [heap |-> h, puts |-> Append(done, e), err |-> r.err]
           ELSE ApplyPuts(r.heap, Tail(entries), Append(done, e))

WriteBack(h, scopes, out_variable_groups_xs) ==
  ApplyPuts(h, WriteEntries(scopes, out_variable_groups_xs), <<>>)

\* ------------------------------------------------- vmap / scan: axis sizes

\* An entry of in_axes or variable_in_axes is None or an axis index: the
\* empty sequence stands for None, <<k>> for axis k.
NoAxis == <<>>

\* jax.tree_leaves of a tuple of pytrees, each given by its leaves in
\* flattening order; a leaf is an array, given by its shape.
RECURSIVE Flatten(_)
Flatten(xs) == IF xs = <<>> THEN <<>> ELSE Head(xs) \o Flatten(Tail(xs))

\* A find_axis_size that inspects every leaf of x, not only the first.
find_axis_size_every_leaf(axis, x) ==
  IF axis # NoAxis THEN [j \in 1..Len(x) |-> x[j][axis[1] + 1]] ELSE <<>>

\* find_axis_size(axis, x) of vmap, x given by its leaves.  The result is a
\* sequence so that `()` is the empty one: jax.tree_leaves(axis_sizes) drops it.
find_axis_size(axis, x) ==
  IF axis # NoAxis /\ x # <<>> THEN <<x[1][axis[1] + 1]>> ELSE <<>>

\* find_length(axis, x) of scan.
find_length(axis, x) ==
  IF axis # NoAxis /\ x # <<>> THEN <<x[1][axis[1] + 1]>> ELSE <<>>

\* jax.tree_multimap(f, in_axes, args): in_axes is a prefix of the tuple of
\* arguments, either one entry for the whole tuple (in_axes.whole) or one
\* entry per argument; f is applied to each entry and the subtree under it.
ArgAxisSizes(in_axes, args) ==
  IF in_axes.whole THEN find_axis_size(in_axes.axes[1], Flatten(args))
  ELSE Flatten([i \in 1..Len(args) |-> find_axis_size(in_axes.axes[i], args[i])])

ArgLengths(in_axes, args) ==
  IF in_axes.whole THEN find_length(in_axes.axes[1], Flatten(args))
  ELSE Flatten([i \in 1..Len(args) |-> find_length(in_axes.axes[i], args[i])])

\* The same over (variable_in_axes,) * n and variable_groups_xs: one entry
\* of variable_in_axes per group of every scope.
VariableAxisSizes(variable_in_axes, variable_groups_xs) ==
  Flatten([i \in 1..Len(variable_groups_xs) |->
     Flatten([k \in 1..Len(variable_in_axes) |->
        find_axis_size(variable_in_axes[k], variable_groups_xs[i][k])])])

SizeResult(err, size, sizes) == [err |-> err, size |-> size, sizes |-> sizes]

\* Faulty variant: the size is never inferred from the inputs.
vmap_axis_size_explicit_only(variable_in_axes, in_axes, axis_size, variable_groups, args) ==
  LET q == VariableAxisSizes(variable_in_axes, variable_groups) \o ArgAxisSizes(in_axes, args)
      axis_sizes == {q[j] : j \in 1..Len(q)}
  IN  IF Cardinality(axis_sizes) > 1
      THEN SizeResult("Inconsistent batch axis sizes", None, axis_sizes)
      ELSE IF axis_size = None
      THEN SizeResult("axis_size should be specified manually.", None, {})
      ELSE SizeResult("", axis_size, {})

\* vmap.inner up to d_axis_size (lift.py:309-331).
vmap_axis_size(variable_in_axes, in_axes, axis_size, variable_groups, args) ==
  LET q == VariableAxisSizes(variable_in_axes, variable_groups) \o ArgAxisSizes(in_axes, args)
      axis_sizes == {q[j] : j \in 1..Len(q)}
  IN  IF axis_size = None /\ Cardinality(axis_sizes) = 1
      THEN SizeResult("", CHOOSE d \in axis_sizes : TRUE, {})
      ELSE IF Cardinality(axis_sizes) > 1
      THEN SizeResult("Inconsistent batch axis sizes", None, axis_sizes)
      ELSE IF axis_size = None
      THEN SizeResult("axis_size should be specified manually.", None, {})
      ELSE SizeResult("", axis_size, {})

\* scan.inner up to d_length (lift.py:417-433); the variable groups are not
\* looked at.
scan_length(in_axes, length, args) ==
  LET q == ArgLengths(in_axes, args)
      lengths == {q[j] : j \in 1..Len(q)}
  IN  IF length = None /\ Cardinality(lengths) = 1
      THEN SizeResult("", CHOOSE d \in lengths : TRUE, {})
      ELSE IF Cardinality(lengths) > 1
      THEN SizeResult("Inconsistent scan lengths", None, lengths)
      ELSE IF length = None
      THEN SizeResult("length should be specified manually.", None, {})
      ELSE SizeResult("", length, {})

\* ------------------------------------------------------------ scan.inner

\* tuple(zip(*xs)) for n tuples of m entries each: m tuples of n entries;
\* the empty tuple for no tuple at all.
Transpose(xs) ==
  IF xs = <<>> THEN <<>>
  ELSE [k \in 1..Len(xs[1]) |-> [i \in 1..Len(xs) |-> xs[i][k]]]

\* The filters scan hands to pack (lift.py:490-494).
ScanFilters(variable_broadcast, variable_carry, variable_in_groups, variable_out_groups) ==
  [in  |-> <<variable_broadcast, variable_carry>> \o variable_in_groups,
   out |-> <<variable_broadcast, variable_carry>> \o variable_out_groups,
   rng |-> <<>>]

\* scanned, up to the call of scope_fn (lift.py:454-457): per scope the
\* groups (broadcast, carry) followed by the scanned groups.
ScannedGroupsXs(broadcast_vars, carry_vars, scan_vars) ==
  Transpose(<<broadcast_vars, carry_vars>> \o Transpose(scan_vars))

\* Faulty variant: nothing is added back to the broadcast output.
ReinsertBroadcastNone(in_group, out_group) == out_group

\* "add immutable broadcast vars back to broadcast output" (lift.py:467-470)
\* for the groups of one scope.
ReinsertBroadcast(in_group, out_group) ==
  [col \in DOMAIN in_group \cup DOMAIN out_group |->
     IF col \in DOMAIN out_group THEN out_group[col] ELSE in_group[col]]

\* Faulty variant: the carry groups of the iteration's input are returned.
ScannedOutStale(broadcast_vars, carry_vars, out_vars_xs) ==
  LET out_vars_xs_t == Transpose(out_vars_xs)
  IN  [broadcast_vars |->
         [i \in 1..Len(broadcast_vars) |->
            ReinsertBroadcast(broadcast_vars[i], out_vars_xs_t[1][i])],
       carry_vars |-> carry_vars,
       scan_vars |-> Transpose(SubSeq(out_vars_xs_t, 3, Len(out_vars_xs_t)))]

\* scanned, after repack_fn (lift.py:461-471): what goes to the next
\* iteration as (broadcast_vars, carry_vars) and out as scan_vars.
ScannedOut(broadcast_vars, carry_vars, out_vars_xs) ==
  LET out_vars_xs_t == Transpose(out_vars_xs)
  IN  [broadcast_vars |->
         [i \in 1..Len(broadcast_vars) |->
            ReinsertBroadcast(broadcast_vars[i], out_vars_xs_t[1][i])],
       carry_vars |-> out_vars_xs_t[2],
       scan_vars |-> Transpose(SubSeq(out_vars_xs_t, 3, Len(out_vars_xs_t)))]

\* Faulty variant: every broadcast collection is kept in the output.
RemoveImmutableNone(out_group) == out_group

\* "remove immutable broadcast vars" (lift.py:481-484) for one group.
RemoveImmutable(out_group) ==
  [name \in {k \in DOMAIN out_group : ~out_group[k].frozen} |-> out_group[name]]

\* out_vars_xs as scan.inner returns it (lift.py:481-488).
ScanOutVarsXs(broadcast_vars, carry_vars, scan_vars) ==
  Transpose(<<[i \in 1..Len(broadcast_vars) |-> RemoveImmutable(broadcast_vars[i])],
              carry_vars>> \o Transpose(scan_vars))

\* ------------------------------------------------------ transform.wrapper

\* trans_in_fn and trans_out_fn are functions of the caller, from a group of
\* collections to a group of collections: the identity ("id"), or a function
\* that sets one variable in every collection ("mark": trans_in_fn sets w to
\* 1, trans_out_fn sets v to 0).
TransKinds == {"id", "mark"}

trans_in_fn(kind, target) ==
  IF kind = "id" THEN target
  ELSE [c \in DOMAIN target |->
          Collection(target[c].frozen, SetItem(target[c].vals, "w", 1))]

trans_out_fn(kind, target) ==
  IF kind = "id" THEN target
  ELSE [c \in DOMAIN target |->
          Collection(target[c].frozen, SetItem(target[c].vals, "v", 0))]

\* unfreeze(target) and freeze(target) on a group of collections.
UnfreezeGroup(target) == [c \in DOMAIN target |-> Collection(FALSE, target[c].vals)]

FreezeGroup(target) == [c \in DOMAIN target |-> freeze(target[c])]

\* is_target_out = mutable or init (lift.py:205)
is_target_out(mutable, init) == mutable \/ init

\* The filters transform hands to pack (lift.py:205-208).
TransformFilters(target, variables, rngs, mutable, init) ==
  [in  |-> <<target, variables>>,
   out |-> IF is_target_out(mutable, init) THEN <<target, variables>>
           ELSE <<{}, variables>>,
   rng |-> <<rngs>>]

\* Faulty variant: the target of the init run is taken as repack returned it.
InitRunTargetRaw(trans_out, repacked) == repacked[1][1]

\* The target after the init run (lift.py:193-194).
InitRunTarget(trans_out, repacked) == trans_out_fn(trans_out, repacked[1][1])

\* The groups of the main run (lift.py:195-198).
MainRunGroups(trans_in, target, variables, mutable, init) ==
  LET t == trans_in_fn(trans_in, UnfreezeGroup(target))
  IN  << <<IF is_target_out(mutable, init) THEN t ELSE FreezeGroup(t), variables>> >>

\* What transform.wrapper returns as output groups (lift.py:200-203).
TransformOut(trans_out, repacked, mutable, init) ==
  << <<IF is_target_out(mutable, init) THEN trans_out_fn(trans_out, repacked[1][1])
       ELSE repacked[1][1],
       repacked[1][2]>> >>

\* ------------------------------------------------------------- vmap.inner

\* variable_axes is a mapping from a collection filter to an axis, to
\* In(axis) or to Out(axis), given by its items in order: tag is "In", "Out"
\* or "" for a bare axis.
AxisItem(filter, tag, axis) == [filter |-> filter, tag |-> tag, axis |-> axis]

\* Faulty variant: the markers are unpacked but select nothing.
_split_in_out_axes_untagged(xs) ==
  LET unpack == [k \in 1..Len(xs) |-> [filter |-> xs[k].filter, axis |-> xs[k].axis]]
  IN  [in_axes |-> unpack, out_axes |-> unpack]

\* _split_in_out_axes(xs) (lift.py:262-266)
_split_in_out_axes(xs) ==
  LET unpack(v) == [filter |-> v.filter, axis |-> v.axis]
      items(tag) == SelectSeq(xs, LAMBDA v : v.tag # tag)
  IN  [in_axes  |-> [k \in 1..Len(items("Out")) |-> unpack(items("Out")[k])],
       out_axes |-> [k \in 1..Len(items("In")) |-> unpack(items("In")[k])]]

\* _unzip2 of the items of a mapping, one component each.
KeysOfItems(items) == [k \in 1..Len(items) |-> items[k].filter]

AxesOfItems(items) == [k \in 1..Len(items) |-> items[k].axis]

\* Faulty variant: every stream is passed unmapped.
rng_axes_none(rng_splits) == [k \in 1..Len(rng_splits) |-> NoAxis]

\* rng_axes = tuple(0 if rng_split else None for rng_split in rng_splits)
rng_axes(rng_splits) ==
  [k \in 1..Len(rng_splits) |-> IF rng_splits[k] THEN <<0>> ELSE NoAxis]

\* The filters vmap hands to pack (lift.py:302-305, 352-353).  split_rngs is
\* a mapping from a filter to a boolean, given by its items.
VmapFilters(variable_axes, split_rngs) ==
  [in  |-> KeysOfItems(_split_in_out_axes(variable_axes).in_axes),
   out |-> KeysOfItems(_split_in_out_axes(variable_axes).out_axes),
   rng |-> KeysOfItems(split_rngs)]

\* random.split(rng, n): n values derived from rng, stacked along axis 0.
random_split(rng, n) == [i \in 1..n |-> rng \o <<i>>]

\* split_rngs(rng_groups) of vmap.inner (lift.py:334-337)
SplitRngGroups(rng_groups, rng_splits, d_axis_size) ==
  [k \in 1..Len(rng_groups) |->
     IF rng_splits[k]
     THEN [kind \in DOMAIN rng_groups[k] |->
             random_split(rng_groups[k][kind], d_axis_size)]
     ELSE rng_groups[k]]

\* What index i of the mapped axis sees of an input passed to jax.vmap with
\* the given axis (i counts from 1).
IndexView(x, axis, i) == IF axis = NoAxis THEN x ELSE x[i]

\* The rng_groups_xs argument of `mapped` at index i, under
\* in_axes = rng_axes_xs = (rng_axes,) * n (lift.py:320, 341-344).
MappedRngGroupsXs(rng_groups_xs, rng_splits, i) ==
  [s \in 1..Len(rng_groups_xs) |->
     [k \in 1..Len(rng_groups_xs[s]) |->
        [kind \in DOMAIN rng_groups_xs[s][k] |->
           IndexView(rng_groups_xs[s][k][kind], rng_axes(rng_splits)[k], i)]]]

\* ---------------------------------------------------------------------- jit

\* Faulty variant: position 0 is shifted like the others.
jit_static_argnums_all(static_argnums) ==
  LET t == IF static_argnums.iterable THEN static_argnums.items
           ELSE <<static_argnums.int>>
  IN  [k \in 1..Len(t) |-> t[k] + 1]

\* static_argnums as jit hands it to jax.jit (lift.py:589-591).
jit_static_argnums(static_argnums) ==
  LET t == IF static_argnums.iterable THEN static_argnums.items
           ELSE <<static_argnums.int>>
      kept == SelectSeq(t, LAMBDA i : i > 0)
  IN  [k \in 1..Len(kept) |-> kept[k] + 1]

\* ------------------------------------------- scope_fn: objects and copies

\* The collections as objects: a store is a sequence of collections, a
\* reference is an index into it, and a dict of collections maps each name to
\* a reference.  Two dicts share a collection when they hold one reference.

\* A dict rebuilt over the given keys: every selected key gets a new object
\* with the content of the old one (a FrozenDict when frz), the others keep
\* their object.
RECURSIVE Rebuild(_, _, _, _, _)
Rebuild(store, d, keys, sel, frz) ==
  IF keys = <<>> THEN [store |-> store, d |-> d]
  ELSE LET k == Head(keys)
       IN  IF k \in sel
           THEN Rebuild(Append(store, Collection(frz \/ store[d[k]].frozen,
                                                 store[d[k]].vals)),
                        SetItem(d, k, Len(store) + 1), Tail(keys), sel, frz)
           ELSE Rebuild(store, d, Tail(keys), sel, frz)

\* The same for every group of a tuple of groups.
RECURSIVE RebuildGroups(_, _, _, _, _)
RebuildGroups(store, groups, sel, frz, acc) ==
  IF groups = <<>> THEN [store |-> store, groups |-> acc]
  ELSE LET r == Rebuild(store, Head(groups), Keys(Head(groups)), sel, frz)
       IN  RebuildGroups(r.store, Tail(groups), sel, frz, Append(acc, r.d))

\* Faulty variant: the dicts are handed on as they are.
tree_map_identity_shared(store, variables) == [store |-> store, d |-> variables]

\* variables = jax.tree_map(lambda x: x, variables) (lift.py:121-122): every
\* dict of the tree is built anew.
tree_map_identity(store, variables) ==
  Rebuild(store, variables, Keys(variables), DOMAIN variables, FALSE)

\* The variable groups of one scope at pack entry (lift.py:89-98):
\* group_collections hands on the scope's own collection objects (shared) or
\* copies of them, and the collections no out filter selects are replaced by
\* frozen ones.
RefVariableGroups(store, outer, in_variable_filters, out_variable_filters, shared) ==
  LET g == group_collections(outer, in_variable_filters)
      c == IF shared THEN [store |-> store, groups |-> g]
           ELSE RebuildGroups(store, g, ColNames, FALSE, <<>>)
  IN  RebuildGroups(c.store, c.groups,
                    {x \in ColNames : ~col_in_out(out_variable_filters, x)},
                    TRUE, <<>>)

\* The body of the loop of scope_fn for one scope (lift.py:116-129).
RefInnerScope(store, variable_groups, root_mutable, out_variable_filters) ==
  LET c == tree_map_identity(store, MergeGroups(variable_groups))
  IN  [store |-> c.store,
       scope |-> [variables |-> c.d, invalid |-> FALSE,
                  mutable |-> intersect_filters(root_mutable,
                                                UnionAll(out_variable_filters))]]

\* put_variable on an inner root scope: an existing plain dict is written in
\* place.
RefPutVariable(store, scope, col, name, value) ==
  IF scope.invalid THEN [err |-> "invalid scope", store |-> store, scope |-> scope]
  ELSE IF ~in_filter(scope.mutable, col)
  THEN [err |-> "not mutable", store |-> store, scope |-> scope]
  ELSE IF col \in DOMAIN scope.variables /\ store[scope.variables[col]].frozen
  THEN [err |-> "frozen", store |-> store, scope |-> scope]
  ELSE IF col \in DOMAIN scope.variables
  THEN [err |-> "",
        store |-> [store EXCEPT ![scope.variables[col]].vals = SetItem(@, name, value)],
        scope |-> scope]
  ELSE [err |-> "",
        store |-> Append(store, Collection(FALSE, SetItem(EmptyDict, name, value))),
        scope |-> [scope EXCEPT !.variables = SetItem(@, col, Len(store) + 1)]]

\* The content of a dict of collections.
Deref(store, d) == [c \in DOMAIN d |-> store[d[c]]]

\* ------------------------------------------------------------------ state

VARIABLES
  d_pc,      \* SpecDedup: "idle", "input", "deduped", "failed", "duped"
  d_heap,    \* SpecDedup: the scope objects
  d_in,      \* SpecDedup: the flattened input tree (scope handles)
  d_res,     \* SpecDedup: what _dedup_scopes returned
  d_fresh,   \* SpecDedup: the fresh parentless scopes, one per root
  d_out      \* SpecDedup: what _dup_scopes returned

dvars == <<d_pc, d_heap, d_in, d_res, d_fresh, d_out>>

VARIABLES
  a_pc,      \* SpecAxis: "idle", "input", "done"
  a_call,    \* SpecAxis: the call of the lifted vmap or scan
  a_res      \* SpecAxis: the size it settles on, or the error it raises

avars == <<a_pc, a_call, a_res>>

VARIABLES
  j_pc,             \* SpecJit: "idle", "input", "wrapped"
  j_static_argnums, \* SpecJit: the static_argnums argument of jit
  j_jitted          \* SpecJit: the static_argnums handed to jax.jit

jvars == <<j_pc, j_static_argnums, j_jitted>>

VARIABLES
  r_pc,      \* SpecRef: "idle", "start", "payload", "done"
  r_call,    \* SpecRef: the root's mutable filter, the filters of pack,
             \* whether group_collections hands on the scope's own dicts
  r_store,   \* SpecRef: the collection objects (dict or FrozenDict)
  r_outer,   \* SpecRef: scope._variables, collection name -> object
  r_groups,  \* SpecRef: the variable groups of the scope, name -> object
  r_inner,   \* SpecRef: the inner root scopes built so far
  r_writes   \* SpecRef: the writes to the current inner scope

rvars == <<r_pc, r_call, r_store, r_outer, r_groups, r_inner, r_writes>>

VARIABLES
  pc,        \* where the call of the packed function is: "idle", "start",
             \* "payload", "returned", "raising", "writeback", "done", "failed"
  heap,      \* the scope objects: the outer forest, then the inner scopes
  heap0,     \* the scope objects as they were when the call began
  tree,      \* jax.tree_flatten(scope): the flattened input tree
  filters,   \* [in, out, rng]: in_variable_filters, out_variable_filters, rng_filters
  scopes,    \* the canonical outer scopes
  paths,     \* one (root, path) per input handle
  variable_groups_xs,   \* what pack hands to the payload
  rng_groups_xs,
  inner_scopes,         \* the closure variable of scope_fn and of the cleanup
  gen,                  \* scope_fn invocations so far
  payload,   \* what the payload holds: the tree scope_fn returned, whether it
             \* was repacked, the last result of repack, the writes made, and
             \* what it returns (y, out, whether out is repack's result)
  puts,      \* the put_variable calls of the write-back, in order
  outcome    \* what the caller gets: [kind, value]

pvars == <<pc, heap, heap0, tree, filters, scopes, paths, variable_groups_xs,
           rng_groups_xs, inner_scopes, gen, payload, puts, outcome>>

vars == <<dvars, pvars, avars, jvars, rvars>>

NoResult == [err |-> "", scopes |-> <<>>, paths |-> <<>>]

NoOutcome == [kind |-> "none", value |-> "", remainder |-> <<>>, at |-> ""]

\* An exception `value` raised at `at` ("enter", "payload" or "writeback").
Raised(value, remainder, at) ==
  [kind |-> "exception", value |-> value, remainder |-> remainder, at |-> at]

NoPayload ==
  [tree |-> <<>>, tree_repacked |-> FALSE, repacked |-> <<>>,
   has_repacked |-> FALSE, writes |-> 0, y |-> "", out |-> <<>>,
   out_is_repacked |-> FALSE, groups |-> <<>>]

\* The variables of the specification that is not running.
DedupIdle ==
  /\ d_pc = "idle" /\ d_heap = <<>> /\ d_in = <<>> /\ d_res = NoResult
  /\ d_fresh = <<>> /\ d_out = <<>>

AxisIdle == a_pc = "idle" /\ a_call = <<>> /\ a_res = <<>>

\* The static_argnums argument of jit is an int (field int) or an iterable of
\* ints (field items).
StaticArgnums(iterable, int, items) ==
  [iterable |-> iterable, int |-> int, items |-> items]

RefIdle ==
  /\ r_pc = "idle" /\ r_store = <<>> /\ r_outer = EmptyDict /\ r_groups = <<>>
  /\ r_inner = <<>> /\ r_writes = 0
  /\ r_call = [mutable |-> {}, in |-> <<>>, out |-> <<>>, shared |-> FALSE]

JitIdle ==
  /\ j_pc = "idle" /\ j_jitted = <<>>
  /\ j_static_argnums = StaticArgnums(TRUE, 0, <<>>)

PackIdle ==
  /\ pc = "idle" /\ heap = <<>> /\ heap0 = <<>> /\ tree = <<>>
  /\ filters = [in |-> <<>>, out |-> <<>>, rng |-> <<>>]
  /\ scopes = <<>> /\ paths = <<>> /\ variable_groups_xs = <<>>
  /\ rng_groups_xs = <<>> /\ inner_scopes = <<>> /\ gen = 0
  /\ payload = NoPayload /\ puts = <<>> /\ outcome = NoOutcome

\* --------------------------------------------------------------- SpecDedup

\* The outer forest as scope objects without variables.
BareForest ==
  [i \in OuterIds |->
     ScopeRec(OuterShape[i].parent, OuterShape[i].name, EmptyDict, {}, 0)]

\* Sequences of handles of length 0..n
HandleSeqs(n) == UNION {[1..k -> OuterIds] : k \in 0..n}

DedupInit ==
  /\ d_pc = "input"
  /\ d_heap = BareForest
  /\ d_in \in HandleSeqs(MaxHandles)
  /\ d_res = NoResult
  /\ d_fresh = <<>>
  /\ d_out = <<>>
  /\ PackIdle /\ AxisIdle /\ JitIdle /\ RefIdle

\* scopes, paths = _dedup_scopes(scopes)
DedupStep ==
  /\ d_pc = "input"
  /\ d_res' = _dedup_scopes(d_heap, d_in)
  /\ d_pc' = IF d_res'.err = "" THEN "deduped" ELSE "failed"
  /\ UNCHANGED <<d_heap, d_in, d_fresh, d_out, pvars, avars, jvars, rvars>>

\* One fresh parentless scope per root, carrying the root's name, as
\* scope_fn builds them (Scope(variables, name=scope.name, parent=None)).
RECURSIVE FreshRoots(_, _, _, _)
FreshRoots(h, roots, out, g) ==
  IF roots = <<>> THEN [heap |-> h, scopes |-> out]
  ELSE FreshRoots(Append(h, ScopeRec(None, h[Head(roots)].name, EmptyDict, {}, g)),
                  Tail(roots), Append(out, Len(h) + 1), g)

\* inner_scopes = _dup_scopes(scopes, inner_scopes, paths)
DupStep ==
  /\ d_pc = "deduped"
  /\ LET f == FreshRoots(d_heap, d_res.scopes, <<>>, 1)
         r == _dup_scopes(f.heap, d_res.scopes, f.scopes, d_res.paths, 1)
     IN  /\ d_fresh' = f.scopes
         /\ d_heap' = r.heap
         /\ d_out' = r.scopes
  /\ d_pc' = "duped"
  /\ UNCHANGED <<d_in, d_res, pvars, avars, jvars, rvars>>

DedupNext == DedupStep \/ DupStep

SpecDedup == DedupInit /\ [][DedupNext]_vars

\* ---------------------------------------------------------------- SpecAxis

\* Most positional arguments of a call.
MaxArgs == 2

\* Shapes of the arrays; the axes an in_axes entry may name.
Shapes == {<<4, 5>>, <<5, 4>>}
AxisEntries == {NoAxis, <<0>>, <<1>>}
ExplicitSizes == {None, 4}

\* The pytrees an argument or a variable group may be, each given by its
\* arrays in flattening order: no array, one array, two arrays whose sizes
\* differ along axis 0 and along axis 1.
Trees ==
  {<<>>} \cup {<<x>> : x \in Shapes}
         \cup {q \in [1..2 -> Shapes] : q[1] # q[2]}

ArgTuples == UNION {[1..k -> Trees] : k \in 0..MaxArgs}

\* in_axes for n arguments: one entry for all of them, or one per argument.
InAxesFor(n) ==
  {[whole |-> TRUE, axes |-> <<a>>] : a \in AxisEntries} \cup
  {[whole |-> FALSE, axes |-> q] : q \in [1..n -> AxisEntries]}

\* The variable groups of a call: no scope, or one scope with one group
\* under one entry of variable_in_axes.
VariableChoices ==
  {[variable_in_axes |-> <<>>, variable_groups_xs |-> <<>>]} \cup
  {[variable_in_axes |-> <<a>>, variable_groups_xs |-> <<<<g>>>>] :
     a \in AxisEntries, g \in Trees}

AxisInit ==
  /\ a_pc = "input"
  /\ \E args \in ArgTuples, v \in VariableChoices :
       \E in_axes \in InAxesFor(Len(args)), size \in ExplicitSizes :
         a_call = [args |-> args, in_axes |-> in_axes, size |-> size,
                   variable_in_axes |-> v.variable_in_axes,
                   variable_groups_xs |-> v.variable_groups_xs]
  /\ a_res = <<>>
  /\ DedupIdle /\ PackIdle /\ JitIdle /\ RefIdle

\* A call of the function vmap returns, up to d_axis_size.
VmapStep ==
  /\ a_pc = "input"
  /\ a_res' = vmap_axis_size(a_call.variable_in_axes, a_call.in_axes, a_call.size,
                             a_call.variable_groups_xs, a_call.args)
  /\ a_pc' = "vmap"
  /\ UNCHANGED <<a_call, dvars, pvars, jvars, rvars>>

\* A call of the function scan returns, up to d_length.
ScanStep ==
  /\ a_pc = "input"
  /\ a_res' = scan_length(a_call.in_axes, a_call.size, a_call.args)
  /\ a_pc' = "scan"
  /\ UNCHANGED <<a_call, dvars, pvars, jvars, rvars>>

AxisNext == VmapStep \/ ScanStep

SpecAxis == AxisInit /\ [][AxisNext]_vars

\* -------------------------------------------------------------------- Spec
\* One call of the function pack returns.  The payload is the environment:
\* between its invocation and its return it calls scope_fn, writes variables
\* of the inner scopes, calls repack, raises or returns, in any order.

\* scope_fn invocations and variable writes of one payload run.
MaxScopeFn == 2
MaxWrites == 1

\* The flattened scope trees given to the packed function: no scope, one
\* scope, a scope and its child in both orders, a scope and its grandchild,
\* independent scopes, the same scope twice, a grandchild before two roots,
\* and a child twice after its parent.
PackTrees ==
  { <<>>, <<1>>, <<2>>, <<1, 2>>, <<3, 2>>, <<1, 3>>, <<1, 5>>, <<3, 6>>,
    <<2, 2>>, <<3, 5, 1>>, <<1, 2, 2>> }

\* (in_variable_filters, out_variable_filters) as the lifted transforms of
\* lift.py build them.
FilterChoices ==
  { [in |-> <<TrueFilter>>, out |-> <<TrueFilter>>, rng |-> <<TrueFilter>>],
    [in |-> <<{"params"}, TrueFilter>>, out |-> <<{"params"}, TrueFilter>>,
     rng |-> <<TrueFilter>>],
    [in |-> <<{"params"}, TrueFilter>>, out |-> <<{}, TrueFilter>>,
     rng |-> <<TrueFilter>>],
    [in |-> <<{"params"}, {"state"}>>, out |-> <<{"state"}>>,
     rng |-> <<{"dropout"}>>],
    [in |-> <<{"params"}>>, out |-> <<{"params"}, {"state"}>>, rng |-> <<{}>>],
    [in |-> <<{}, {"state"}>>, out |-> <<{}, {"state"}>>, rng |-> <<>>],
    [in |-> <<{"params"}, {"state"}>>, out |-> <<{"params"}>>, rng |-> <<>>],
    [in |-> <<{"params"}, {"state"}>>, out |-> <<{}>>, rng |-> <<>>],
    [in |-> <<>>, out |-> <<>>, rng |-> <<>>] }

\* The variables of outer scope i under the root permission `mutable`: a
\* collection is a plain dict exactly when the root permits its mutation.
OuterVariables(i, mutable) ==
  [c \in (IF i % 2 = 1 THEN ColNames ELSE {"params"}) |->
     Collection(c \notin mutable, IF c = "params" THEN [n \in {"w"} |-> 0]
                                   ELSE [n \in VarNames |-> i % 2])]

OuterForest(mutable) ==
  [i \in OuterIds |->
     [ScopeRec(OuterShape[i].parent, OuterShape[i].name,
               OuterVariables(i, mutable), mutable, 0)
        EXCEPT !.rngs = [k \in RngNames |-> <<i, k, 0>>],
               !.rng_counters = [k \in RngNames |-> 0]]]

Init ==
  /\ DedupIdle /\ AxisIdle /\ JitIdle /\ RefIdle
  /\ pc = "start"
  /\ \E mutable \in {ColNames, {"state"}} : heap = OuterForest(mutable)
  /\ heap0 = heap
  /\ tree \in PackTrees
  /\ filters \in FilterChoices
  /\ scopes = <<>> /\ paths = <<>> /\ variable_groups_xs = <<>>
  /\ rng_groups_xs = <<>> /\ inner_scopes = <<>> /\ gen = 0
  /\ payload = NoPayload /\ puts = <<>> /\ outcome = NoOutcome

\* pack.wrapper up to the invocation of the payload (lift.py:79-107).
PackEnter ==
  /\ pc = "start"
  /\ LET d == _dedup_scopes(heap, tree)
     IN  IF d.err # ""
         THEN /\ pc' = "failed"
              /\ outcome' = Raised(d.err, <<>>, "enter")
              /\ UNCHANGED <<heap, scopes, paths, variable_groups_xs, rng_groups_xs>>
         ELSE LET r == RngGroupsXs(heap, d.scopes, filters.rng, <<>>)
              IN  /\ pc' = "payload"
                  /\ scopes' = d.scopes
                  /\ paths' = d.paths
                  /\ variable_groups_xs' =
                       VariableGroupsXs(heap, d.scopes, filters.in, filters.out)
                  /\ rng_groups_xs' = r.rng_groups_xs
                  /\ heap' = r.heap
                  /\ UNCHANGED outcome
  /\ UNCHANGED <<dvars, avars, jvars, rvars, heap0, tree, filters, inner_scopes, gen, payload, puts>>

\* What a payload may pass to scope_fn: the groups it was handed, or those
\* groups with one collection of one scope replaced by (or added as) a plain
\* dict of its own making, as transform does with trans_in_fn(unfreeze(target)).
OwnVals(vals) ==
  SetItem(vals, "w", IF "w" \in DOMAIN vals THEN 1 - vals["w"] ELSE 1)

Thaw(groups, c) ==
  IF groups = <<>> THEN groups
  ELSE IF \E k \in 1..Len(groups) : c \in DOMAIN groups[k]
  THEN [k \in 1..Len(groups) |->
          IF c \in DOMAIN groups[k]
          THEN SetItem(groups[k], c, Collection(FALSE, OwnVals(groups[k][c].vals)))
          ELSE groups[k]]
  ELSE [groups EXCEPT ![1] = SetItem(@, c, Collection(FALSE, EmptyDict))]

PayloadGroups ==
  {variable_groups_xs} \cup
  { [variable_groups_xs EXCEPT ![i] = Thaw(@, c)] :
      i \in 1..Len(variable_groups_xs), c \in ColNames } \cup
  { [i \in 1..Len(variable_groups_xs) |->
       Thaw(variable_groups_xs[i], IF i = 1 THEN "state" ELSE "params")] }

\* The payload calls scope_fn (lift.py:108-131), every time with the groups
\* it settled on at its first call.
PayloadScopeFn ==
  /\ pc = "payload"
  /\ gen < MaxScopeFn
  /\ \E g \in (IF gen = 0 THEN PayloadGroups ELSE {payload.groups}) :
       LET r == scope_fn(heap, inner_scopes, g, rng_groups_xs, scopes, paths,
                         filters.out, gen + 1)
       IN  /\ heap' = r.heap
           /\ inner_scopes' = r.inner_scopes
           /\ payload' = [payload EXCEPT !.tree = r.inner_scopes,
                                         !.tree_repacked = FALSE,
                                         !.groups = g]
  /\ gen' = gen + 1
  /\ UNCHANGED <<dvars, avars, jvars, rvars, pc, heap0, tree, filters, scopes, paths,
                 variable_groups_xs, rng_groups_xs, puts, outcome>>

\* A value for variable n of collection c of scope s other than the one it
\* has.
OtherValue(h, s, c, n) ==
  IF c \in DOMAIN h[s].variables /\ n \in DOMAIN h[s].variables[c].vals
  THEN 1 - h[s].variables[c].vals[n] ELSE 1

\* The payload writes a new value to a variable of an inner root scope of the
\* tree it holds; a refused write raises out of the payload.
PayloadWrite ==
  /\ pc = "payload"
  /\ payload.writes < MaxWrites
  /\ \E i \in 1..Len(payload.tree), c \in ColNames, n \in {"w"} :
       LET s == TopOf(heap, payload.tree[i])
           r == put_variable(heap, s, c, n, OtherValue(heap, s, c, n))
       IN  IF r.err = ""
           THEN /\ heap' = r.heap
                /\ payload' = [payload EXCEPT !.writes = @ + 1]
                /\ UNCHANGED <<pc, outcome>>
           ELSE /\ pc' = "raising"
                /\ outcome' = Raised(r.err, <<>>, "payload")
                /\ UNCHANGED <<heap, payload>>
  /\ UNCHANGED <<dvars, avars, jvars, rvars, heap0, tree, filters, scopes, paths, variable_groups_xs,
                 rng_groups_xs, inner_scopes, gen, puts>>

\* The payload calls repack on the tree it holds, once per tree
\* (lift.py:133-151); an error of repack propagates out of the payload.
PayloadRepack ==
  /\ pc = "payload"
  /\ gen > 0
  /\ ~payload.tree_repacked
  /\ LET r == repack(heap, payload.tree, paths, filters.out)
     IN  /\ heap' = r.heap
         /\ IF r.err = ""
            THEN /\ payload' = [payload EXCEPT !.repacked = r.out,
                                               !.has_repacked = TRUE,
                                               !.tree_repacked = TRUE]
                 /\ UNCHANGED <<pc, outcome>>
            ELSE /\ pc' = "raising"
                 /\ outcome' = Raised(r.err, r.remainder, "payload")
                 /\ payload' = [payload EXCEPT !.tree_repacked = TRUE]
  /\ UNCHANGED <<dvars, avars, jvars, rvars, heap0, tree, filters, scopes, paths, variable_groups_xs,
                 rng_groups_xs, inner_scopes, gen, puts>>

\* Output groups a payload may return that repack did not produce: one entry
\* for one scope (scan and transform edit the groups they return).
CraftedOut(i, c) ==
  [j \in 1..Len(scopes) |->
     IF j = i THEN << [k \in {c} |-> Collection(FALSE, [n \in {"v"} |-> 1])] >>
     ELSE <<>>]

\* The payload returns (y, out_variable_groups_xs) (lift.py:153-154).
PayloadReturn ==
  /\ pc = "payload"
  /\ \E yv \in YValues :
       \/ /\ payload.has_repacked
          /\ payload' = [payload EXCEPT !.y = yv, !.out = payload.repacked,
                                        !.out_is_repacked = TRUE]
       \/ /\ gen = 0
          /\ \E i \in 1..Len(scopes), c \in ColNames :
               payload' = [payload EXCEPT !.y = yv, !.out = CraftedOut(i, c)]
  /\ pc' = "returned"
  /\ UNCHANGED <<dvars, avars, jvars, rvars, heap, heap0, tree, filters, scopes, paths,
                 variable_groups_xs, rng_groups_xs, inner_scopes, gen, puts, outcome>>

\* The payload raises.
PayloadRaise ==
  /\ pc = "payload"
  /\ pc' = "raising"
  /\ outcome' = Raised("payload error", <<>>, "payload")
  /\ UNCHANGED <<dvars, avars, jvars, rvars, heap, heap0, tree, filters, scopes, paths,
                 variable_groups_xs, rng_groups_xs, inner_scopes, gen, payload, puts>>

\* The `finally` block (lift.py:155-157); an exception then reaches the caller.
PackFinally ==
  /\ pc \in {"returned", "raising"}
  /\ heap' = InvalidateAll(heap, inner_scopes)
  /\ pc' = IF pc = "returned" THEN "writeback" ELSE "failed"
  /\ UNCHANGED <<dvars, avars, jvars, rvars, heap0, tree, filters, scopes, paths, variable_groups_xs,
                 rng_groups_xs, inner_scopes, gen, payload, puts, outcome>>

\* The write-back and `return y` (lift.py:158-163).
PackWriteBack ==
  /\ pc = "writeback"
  /\ LET r == WriteBack(heap, scopes, payload.out)
     IN  /\ heap' = r.heap
         /\ puts' = r.puts
         /\ IF r.err = ""
            THEN /\ pc' = "done"
                 /\ outcome' = [NoOutcome EXCEPT !.kind = "value", !.value = payload.y]
            ELSE /\ pc' = "failed"
                 /\ outcome' = Raised(r.err, <<>>, "writeback")
  /\ UNCHANGED <<dvars, avars, jvars, rvars, heap0, tree, filters, scopes, paths, variable_groups_xs,
                 rng_groups_xs, inner_scopes, gen, payload>>

Next ==
  \/ PackEnter
  \/ PayloadScopeFn
  \/ PayloadWrite
  \/ PayloadRepack
  \/ PayloadReturn
  \/ PayloadRaise
  \/ PackFinally
  \/ PackWriteBack

Spec == Init /\ [][Next]_vars

\* ---------------------------------------------------------------- SpecScan

\* pack.wrapper with scan.inner as its payload.  The loop of axes_scan.scan
\* runs `scanned` once per iteration, feeding each iteration the broadcast
\* and carry groups the previous one returned.

\* Most iterations of a scan.
MaxLength == 3

ScanTrees == {<<1>>, <<2>>, <<1, 5>>, <<1, 3>>}

\* What the loop body does to every scope it is given: "inc" adds one to the
\* variable w of collection "state", "touch" writes the variable w of
\* collection "params".
BodyKinds == {"inc", "touch"}

\* The local state of scan.inner, held in `payload` next to the fields pack
\* reads (out, y).
ScanLocals(variable_broadcast, variable_carry, length, body) ==
  [tree |-> <<>>, tree_repacked |-> FALSE, repacked |-> <<>>,
   has_repacked |-> FALSE, writes |-> 0, y |-> "", out |-> <<>>,
   out_is_repacked |-> FALSE, groups |-> <<>>,
   variable_broadcast |-> variable_broadcast, variable_carry |-> variable_carry,
   length |-> length, body |-> body,
   phase |-> "begin", iter |-> 0, d_length |-> 0,
   broadcast_vars |-> <<>>, carry_vars |-> <<>>, scan_vars |-> <<>>]

ScanInit ==
  /\ DedupIdle /\ AxisIdle /\ JitIdle /\ RefIdle
  /\ pc = "start"
  /\ \E mutable \in {ColNames, {"state"}, {"params"}} : heap = OuterForest(mutable)
  /\ heap0 = heap
  /\ tree \in ScanTrees
  /\ \E variable_broadcast \in {{"params"}, {}}, variable_carry \in {{"state"}, {}} :
       \E length \in {None} \cup 1..MaxLength, body \in SUBSET BodyKinds :
         /\ filters = ScanFilters(variable_broadcast, variable_carry, <<>>, <<>>)
         /\ payload = ScanLocals(variable_broadcast, variable_carry, length, body)
  /\ scopes = <<>> /\ paths = <<>> /\ variable_groups_xs = <<>>
  /\ rng_groups_xs = <<>> /\ inner_scopes = <<>> /\ gen = 0
  /\ puts = <<>> /\ outcome = NoOutcome

\* scan.inner up to the loop (lift.py:417-433, 473-476): the length, then
\* the broadcast and carry groups of every scope.
ScanBegin ==
  /\ pc = "payload" /\ payload.phase = "begin"
  /\ LET l == scan_length([whole |-> TRUE, axes |-> <<<<0>>>>], payload.length, <<>>)
         variable_groups_xs_t == Transpose(variable_groups_xs)
     IN  IF l.err # ""
         THEN /\ pc' = "raising"
              /\ outcome' = Raised(l.err, <<>>, "payload")
              /\ UNCHANGED payload
         ELSE /\ payload' = [payload EXCEPT
                   !.phase = "loop", !.d_length = l.size,
                   !.broadcast_vars = variable_groups_xs_t[1],
                   !.carry_vars = variable_groups_xs_t[2],
                   !.scan_vars = Transpose(SubSeq(variable_groups_xs_t, 3,
                                                  Len(variable_groups_xs_t)))]
              /\ UNCHANGED <<pc, outcome>>
  /\ UNCHANGED <<dvars, avars, jvars, rvars, heap, heap0, tree, filters, scopes, paths,
                 variable_groups_xs, rng_groups_xs, inner_scopes, gen, puts>>

\* scanned, first part (lift.py:454-458): the iteration's scope.
ScanIterEnter ==
  /\ pc = "payload" /\ payload.phase = "loop"
  /\ payload.iter < payload.d_length
  /\ LET r == scope_fn(heap, inner_scopes,
                       ScannedGroupsXs(payload.broadcast_vars, payload.carry_vars,
                                       payload.scan_vars),
                       rng_groups_xs, scopes, paths, filters.out, gen + 1)
     IN  /\ heap' = r.heap
         /\ inner_scopes' = r.inner_scopes
         /\ payload' = [payload EXCEPT !.tree = r.inner_scopes, !.phase = "body"]
  /\ gen' = gen + 1
  /\ UNCHANGED <<dvars, avars, jvars, rvars, pc, heap0, tree, filters, scopes, paths,
                 variable_groups_xs, rng_groups_xs, puts, outcome>>

\* The value of the counter of scope s.
CounterOf(h, s) ==
  IF "state" \in DOMAIN h[s].variables /\ "w" \in DOMAIN h[s].variables["state"].vals
  THEN h[s].variables["state"].vals["w"] ELSE 0

\* The body on one scope.
BodyOn(h, s, body) ==
  LET r1 == IF "inc" \in body
            THEN put_variable(h, s, "state", "w", CounterOf(h, s) + 1)
            ELSE [err |-> "", heap |-> h]
  IN  IF r1.err # "" \/ "touch" \notin body THEN r1
      ELSE put_variable(r1.heap, s, "params", "w", 1)

RECURSIVE RunBody(_, _, _)
RunBody(h, ss, body) ==
  IF ss = <<>> THEN [err |-> "", heap |-> h]
  ELSE LET r == BodyOn(h, Head(ss), body)
       IN  IF r.err # "" THEN r ELSE RunBody(r.heap, Tail(ss), body)

\* The root scopes of a flattened inner tree, each once.
RootsOfTree(h, t) ==
  SelectSeq(OrderedKeys(t, <<>>), LAMBDA x : h[x].parent = None)

\* c, y = fn(scope, c, *args) (lift.py:459); an error of the body propagates.
ScanIterBody ==
  /\ pc = "payload" /\ payload.phase = "body"
  /\ LET r == RunBody(heap, RootsOfTree(heap, payload.tree), payload.body)
     IN  IF r.err = ""
         THEN /\ heap' = r.heap
              /\ payload' = [payload EXCEPT !.phase = "repack"]
              /\ UNCHANGED <<pc, outcome>>
         ELSE /\ pc' = "raising"
              /\ outcome' = Raised(r.err, <<>>, "payload")
              /\ UNCHANGED <<heap, payload>>
  /\ UNCHANGED <<dvars, avars, jvars, rvars, heap0, tree, filters, scopes, paths, variable_groups_xs,
                 rng_groups_xs, inner_scopes, gen, puts>>

\* scanned, last part (lift.py:460-471), and the step of the loop.
ScanIterExit ==
  /\ pc = "payload" /\ payload.phase = "repack"
  /\ LET r == repack(heap, payload.tree, paths, filters.out)
     IN  /\ heap' = r.heap
         /\ IF r.err = ""
            THEN LET o == ScannedOut(payload.broadcast_vars, payload.carry_vars, r.out)
                 IN  /\ payload' = [payload EXCEPT
                           !.repacked = r.out, !.has_repacked = TRUE,
                           !.broadcast_vars = o.broadcast_vars,
                           !.carry_vars = o.carry_vars,
                           !.scan_vars = o.scan_vars,
                           !.iter = @ + 1, !.phase = "loop"]
                     /\ UNCHANGED <<pc, outcome>>
            ELSE /\ pc' = "raising"
                 /\ outcome' = Raised(r.err, r.remainder, "payload")
                 /\ UNCHANGED payload
  /\ UNCHANGED <<dvars, avars, jvars, rvars, heap0, tree, filters, scopes, paths, variable_groups_xs,
                 rng_groups_xs, inner_scopes, gen, puts>>

\* scan.inner after the loop (lift.py:479-488).
ScanReturn ==
  /\ pc = "payload" /\ payload.phase = "loop"
  /\ payload.iter = payload.d_length
  /\ payload' = [payload EXCEPT
        !.phase = "returned", !.y = "y0",
        !.out = ScanOutVarsXs(payload.broadcast_vars, payload.carry_vars,
                              payload.scan_vars)]
  /\ pc' = "returned"
  /\ UNCHANGED <<dvars, avars, jvars, rvars, heap, heap0, tree, filters, scopes, paths,
                 variable_groups_xs, rng_groups_xs, inner_scopes, gen, puts, outcome>>

ScanNext ==
  \/ PackEnter
  \/ ScanBegin
  \/ ScanIterEnter
  \/ ScanIterBody
  \/ ScanIterExit
  \/ ScanReturn
  \/ PackFinally
  \/ PackWriteBack

SpecScan == ScanInit /\ [][ScanNext]_vars

\* Scans whose broadcast filter also selects collections that a scope does
\* not hold when the scan starts.
ScanBroadcastInit ==
  /\ DedupIdle /\ AxisIdle /\ JitIdle /\ RefIdle
  /\ pc = "start"
  /\ \E mutable \in {ColNames, {"state"}, {"params"}} : heap = OuterForest(mutable)
  /\ heap0 = heap
  /\ tree \in ScanTrees
  /\ \E variable_broadcast \in {{"params"}, {"state"}, TrueFilter, {}},
        variable_carry \in {{"state"}, {}} :
       \E length \in {None} \cup 1..MaxLength, body \in SUBSET BodyKinds :
         /\ filters = ScanFilters(variable_broadcast, variable_carry, <<>>, <<>>)
         /\ payload = ScanLocals(variable_broadcast, variable_carry, length, body)
  /\ scopes = <<>> /\ paths = <<>> /\ variable_groups_xs = <<>>
  /\ rng_groups_xs = <<>> /\ inner_scopes = <<>> /\ gen = 0
  /\ puts = <<>> /\ outcome = NoOutcome

SpecScanBroadcast == ScanBroadcastInit /\ [][ScanNext]_vars

\* ----------------------------------------------------------- SpecTransform

\* pack.wrapper with transform.wrapper as its payload.

TransformTrees == {<<1>>, <<2>>, <<1, 2>>, <<1, 5>>}

\* What fn does to the root scope it is given: "wt" writes the variable w of
\* the target collection "params", "wn" writes the variable w of the
\* collection "state".
FnKinds == {"wt", "wn"}

TransformLocals(init, mutable, trans_in, trans_out, body) ==
  [tree |-> <<>>, tree_repacked |-> FALSE, repacked |-> <<>>,
   has_repacked |-> FALSE, writes |-> 0, y |-> "", out |-> <<>>,
   out_is_repacked |-> FALSE, groups |-> <<>>,
   init |-> init, mutable |-> mutable, trans_in |-> trans_in,
   trans_out |-> trans_out, body |-> body,
   phase |-> "begin", runs |-> 0, target |-> EmptyDict, variables |-> EmptyDict,
   init_repacked |-> <<>>]

TransformInit ==
  /\ DedupIdle /\ AxisIdle /\ JitIdle /\ RefIdle
  /\ pc = "start"
  /\ \E m \in {ColNames, {"state"}, {"params"}} : heap = OuterForest(m)
  /\ heap0 = heap
  /\ tree \in TransformTrees
  /\ \E init \in BOOLEAN, mutable \in BOOLEAN, variables \in {TrueFilter, {"state"}} :
       \E trans_in \in TransKinds, trans_out \in TransKinds, body \in SUBSET FnKinds :
         /\ filters = TransformFilters({"params"}, variables, TrueFilter, mutable, init)
         /\ payload = TransformLocals(init, mutable, trans_in, trans_out, body)
  /\ scopes = <<>> /\ paths = <<>> /\ variable_groups_xs = <<>>
  /\ rng_groups_xs = <<>> /\ inner_scopes = <<>> /\ gen = 0
  /\ puts = <<>> /\ outcome = NoOutcome

\* The assertion and the unpacking of the groups (lift.py:188-189).
TransformBegin ==
  /\ pc = "payload" /\ payload.phase = "begin"
  /\ IF Len(variable_groups_xs) # 1
     THEN /\ pc' = "raising"
          /\ outcome' = Raised("transform does not support multi-scope lifting.",
                               <<>>, "payload")
          /\ UNCHANGED payload
     ELSE /\ payload' = [payload EXCEPT
                !.target = variable_groups_xs[1][1],
                !.variables = variable_groups_xs[1][2],
                !.phase = IF payload.init THEN "init" ELSE "main"]
          /\ UNCHANGED <<pc, outcome>>
  /\ UNCHANGED <<dvars, avars, jvars, rvars, heap, heap0, tree, filters, scopes, paths,
                 variable_groups_xs, rng_groups_xs, inner_scopes, gen, puts>>

\* scope = scope_fn(((target, variables),), rng_groups_xs) of the init run
\* (lift.py:191).
TransformInitEnter ==
  /\ pc = "payload" /\ payload.phase = "init"
  /\ LET r == scope_fn(heap, inner_scopes,
                       << <<payload.target, payload.variables>> >>,
                       rng_groups_xs, scopes, paths, filters.out, gen + 1)
     IN  /\ heap' = r.heap
         /\ inner_scopes' = r.inner_scopes
         /\ payload' = [payload EXCEPT !.tree = r.inner_scopes, !.phase = "run1"]
  /\ gen' = gen + 1
  /\ UNCHANGED <<dvars, avars, jvars, rvars, pc, heap0, tree, filters, scopes, paths,
                 variable_groups_xs, rng_groups_xs, puts, outcome>>

\* fn on one scope: a write of a new value per kind of the body.
FnOn(h, s, body) ==
  LET r1 == IF "wt" \in body
            THEN put_variable(h, s, "params", "w", OtherValue(h, s, "params", "w"))
            ELSE [err |-> "", heap |-> h]
  IN  IF r1.err # "" \/ "wn" \notin body THEN r1
      ELSE put_variable(r1.heap, s, "state", "w", OtherValue(r1.heap, s, "state", "w"))

\* fn(scope, *args) (lift.py:192, 200); an error of fn propagates.
TransformRun ==
  /\ pc = "payload" /\ payload.phase \in {"run1", "run2"}
  /\ LET r == FnOn(heap, RootsOfTree(heap, payload.tree)[1], payload.body)
     IN  IF r.err = ""
         THEN /\ heap' = r.heap
              /\ payload' = [payload EXCEPT
                    !.runs = @ + 1,
                    !.phase = IF payload.phase = "run1" THEN "repack1" ELSE "repack2"]
              /\ UNCHANGED <<pc, outcome>>
         ELSE /\ pc' = "raising"
              /\ outcome' = Raised(r.err, <<>>, "payload")
              /\ heap' = heap
              /\ payload' = [payload EXCEPT !.runs = @ + 1]
  /\ UNCHANGED <<dvars, avars, jvars, rvars, heap0, tree, filters, scopes, paths, variable_groups_xs,
                 rng_groups_xs, inner_scopes, gen, puts>>

\* target, _ = repack(scope)[0]; target = trans_out_fn(target)
\* (lift.py:193-194).
TransformInitExit ==
  /\ pc = "payload" /\ payload.phase = "repack1"
  /\ LET r == repack(heap, payload.tree, paths, filters.out)
     IN  /\ heap' = r.heap
         /\ IF r.err = ""
            THEN /\ payload' = [payload EXCEPT
                       !.init_repacked = r.out,
                       !.target = InitRunTarget(payload.trans_out, r.out),
                       !.phase = "main"]
                 /\ UNCHANGED <<pc, outcome>>
            ELSE /\ pc' = "raising"
                 /\ outcome' = Raised(r.err, r.remainder, "payload")
                 /\ UNCHANGED payload
  /\ UNCHANGED <<dvars, avars, jvars, rvars, heap0, tree, filters, scopes, paths, variable_groups_xs,
                 rng_groups_xs, inner_scopes, gen, puts>>

\* The scope of the main run (lift.py:195-199).
TransformMainEnter ==
  /\ pc = "payload" /\ payload.phase = "main"
  /\ LET g == MainRunGroups(payload.trans_in, payload.target, payload.variables,
                            payload.mutable, payload.init)
         r == scope_fn(heap, inner_scopes, g, rng_groups_xs, scopes, paths,
                       filters.out, gen + 1)
     IN  /\ heap' = r.heap
         /\ inner_scopes' = r.inner_scopes
         /\ payload' = [payload EXCEPT !.tree = r.inner_scopes, !.groups = g,
                                       !.target = g[1][1], !.phase = "run2"]
  /\ gen' = gen + 1
  /\ UNCHANGED <<dvars, avars, jvars, rvars, pc, heap0, tree, filters, scopes, paths,
                 variable_groups_xs, rng_groups_xs, puts, outcome>>

\* The repack of the main run and the return (lift.py:201-204).
TransformReturn ==
  /\ pc = "payload" /\ payload.phase = "repack2"
  /\ LET r == repack(heap, payload.tree, paths, filters.out)
     IN  /\ heap' = r.heap
         /\ IF r.err = ""
            THEN /\ payload' = [payload EXCEPT
                       !.repacked = r.out, !.has_repacked = TRUE,
                       !.y = "y0", !.phase = "returned",
                       !.out = TransformOut(payload.trans_out, r.out,
                                            payload.mutable, payload.init)]
                 /\ pc' = "returned"
                 /\ UNCHANGED outcome
            ELSE /\ pc' = "raising"
                 /\ outcome' = Raised(r.err, r.remainder, "payload")
                 /\ UNCHANGED payload
  /\ UNCHANGED <<dvars, avars, jvars, rvars, heap0, tree, filters, scopes, paths, variable_groups_xs,
                 rng_groups_xs, inner_scopes, gen, puts>>

TransformNext ==
  \/ PackEnter
  \/ TransformBegin
  \/ TransformInitEnter
  \/ TransformRun
  \/ TransformInitExit
  \/ TransformMainEnter
  \/ TransformReturn
  \/ PackFinally
  \/ PackWriteBack

SpecTransform == TransformInit /\ [][TransformNext]_vars

\* ---------------------------------------------------------------- SpecVmap

\* pack.wrapper with vmap.inner as its payload.  The collections are passed
\* to jax.vmap unmapped (axis None); the random number streams are split or
\* not.

\* Largest size of the mapped axis.
MaxAxisSize == 3

VmapTrees == {<<1>>, <<2>>, <<1, 5>>, <<2, 5>>}

VariableAxesChoices ==
  {<<AxisItem({"params"}, t1, NoAxis), AxisItem({"state"}, t2, NoAxis)>> :
     t1 \in {"", "In", "Out"}, t2 \in {"", "In", "Out"}}
    \cup {<<AxisItem({"params"}, "In", NoAxis), AxisItem(TrueFilter, "Out", NoAxis)>>,
          <<AxisItem({"params"}, "In", NoAxis), AxisItem(TrueFilter, "", NoAxis)>>}

\* The value of an item of split_rngs is a boolean.
SplitRngsChoices == {<<AxisItem(TrueFilter, "", b)>> : b \in BOOLEAN}

VmapLocals(variable_axes, split_rngs, axis_size, body) ==
  [tree |-> <<>>, tree_repacked |-> FALSE, repacked |-> <<>>,
   has_repacked |-> FALSE, writes |-> 0, y |-> "", out |-> <<>>,
   out_is_repacked |-> FALSE, groups |-> <<>>,
   variable_axes |-> variable_axes, split_rngs |-> split_rngs,
   axis_size |-> axis_size, body |-> body,
   phase |-> "begin", d_axis_size |-> 0, rng_groups_xs |-> <<>>,
   mapped_rngs |-> <<>>]

VmapInit ==
  /\ DedupIdle /\ AxisIdle /\ JitIdle /\ RefIdle
  /\ pc = "start"
  /\ \E m \in {ColNames, {"state"}, {"params"}} : heap = OuterForest(m)
  /\ heap0 = heap
  /\ tree \in VmapTrees
  /\ \E variable_axes \in VariableAxesChoices, split_rngs \in SplitRngsChoices :
       \E axis_size \in {None} \cup 1..MaxAxisSize, body \in SUBSET FnKinds :
         /\ filters = VmapFilters(variable_axes, split_rngs)
         /\ payload = VmapLocals(variable_axes, split_rngs, axis_size, body)
  /\ scopes = <<>> /\ paths = <<>> /\ variable_groups_xs = <<>>
  /\ rng_groups_xs = <<>> /\ inner_scopes = <<>> /\ gen = 0
  /\ puts = <<>> /\ outcome = NoOutcome

\* vmap.inner up to the mapped function (lift.py:309-339): the size of the
\* axis, then the split of the streams.
VmapBegin ==
  /\ pc = "payload" /\ payload.phase = "begin"
  /\ LET a == vmap_axis_size(AxesOfItems(_split_in_out_axes(payload.variable_axes).in_axes),
                             [whole |-> TRUE, axes |-> <<<<0>>>>], payload.axis_size,
                             variable_groups_xs, <<>>)
     IN  IF a.err # ""
         THEN /\ pc' = "raising"
              /\ outcome' = Raised(a.err, <<>>, "payload")
              /\ UNCHANGED payload
         ELSE /\ payload' = [payload EXCEPT
                   !.phase = "mapped", !.d_axis_size = a.size,
                   !.rng_groups_xs =
                      [i \in 1..Len(rng_groups_xs) |->
                         SplitRngGroups(rng_groups_xs[i], AxesOfItems(payload.split_rngs),
                                        a.size)]]
              /\ UNCHANGED <<pc, outcome>>
  /\ UNCHANGED <<dvars, avars, jvars, rvars, heap, heap0, tree, filters, scopes, paths,
                 variable_groups_xs, rng_groups_xs, inner_scopes, gen, puts>>

\* mapped, first part (lift.py:341-345): what every index of the mapped axis
\* is given of the streams, and the scope.
VmapEnter ==
  /\ pc = "payload" /\ payload.phase = "mapped"
  /\ LET r == scope_fn(heap, inner_scopes, variable_groups_xs, payload.rng_groups_xs,
                       scopes, paths, filters.out, gen + 1)
     IN  /\ heap' = r.heap
         /\ inner_scopes' = r.inner_scopes
         /\ payload' = [payload EXCEPT
               !.tree = r.inner_scopes, !.phase = "run",
               !.mapped_rngs =
                  [i \in 1..payload.d_axis_size |->
                     MappedRngGroupsXs(payload.rng_groups_xs,
                                       AxesOfItems(payload.split_rngs), i)]]
  /\ gen' = gen + 1
  /\ UNCHANGED <<dvars, avars, jvars, rvars, pc, heap0, tree, filters, scopes, paths,
                 variable_groups_xs, rng_groups_xs, puts, outcome>>

RECURSIVE RunFn(_, _, _)
RunFn(h, ss, body) ==
  IF ss = <<>> THEN [err |-> "", heap |-> h]
  ELSE LET r == FnOn(h, Head(ss), body)
       IN  IF r.err # "" THEN r ELSE RunFn(r.heap, Tail(ss), body)

\* y = fn(scope, *args) (lift.py:346); an error of fn propagates.
VmapRun ==
  /\ pc = "payload" /\ payload.phase = "run"
  /\ LET r == RunFn(heap, RootsOfTree(heap, payload.tree), payload.body)
     IN  IF r.err = ""
         THEN /\ heap' = r.heap
              /\ payload' = [payload EXCEPT !.phase = "repack"]
              /\ UNCHANGED <<pc, outcome>>
         ELSE /\ pc' = "raising"
              /\ outcome' = Raised(r.err, <<>>, "payload")
              /\ UNCHANGED <<heap, payload>>
  /\ UNCHANGED <<dvars, avars, jvars, rvars, heap0, tree, filters, scopes, paths, variable_groups_xs,
                 rng_groups_xs, inner_scopes, gen, puts>>

\* return y, repack_fn(scope) (lift.py:347-349).
VmapReturn ==
  /\ pc = "payload" /\ payload.phase = "repack"
  /\ LET r == repack(heap, payload.tree, paths, filters.out)
     IN  /\ heap' = r.heap
         /\ IF r.err = ""
            THEN /\ payload' = [payload EXCEPT
                       !.repacked = r.out, !.has_repacked = TRUE,
                       !.y = "y0", !.phase = "returned", !.out = r.out]
                 /\ pc' = "returned"
                 /\ UNCHANGED outcome
            ELSE /\ pc' = "raising"
                 /\ outcome' = Raised(r.err, r.remainder, "payload")
                 /\ UNCHANGED payload
  /\ UNCHANGED <<dvars, avars, jvars, rvars, heap0, tree, filters, scopes, paths, variable_groups_xs,
                 rng_groups_xs, inner_scopes, gen, puts>>

VmapNext ==
  \/ PackEnter
  \/ VmapBegin
  \/ VmapEnter
  \/ VmapRun
  \/ VmapReturn
  \/ PackFinally
  \/ PackWriteBack

SpecVmap == VmapInit /\ [][VmapNext]_vars

\* -------------------------------------------------------------- SpecRepack

\* pack.wrapper with a payload that calls scope_fn once and hands to repack
\* the tree it got, or that tree with one scope replaced or two exchanged.

RepackLocals ==
  [tree |-> <<>>, tree_repacked |-> FALSE, repacked |-> <<>>,
   has_repacked |-> FALSE, writes |-> 0, y |-> "", out |-> <<>>,
   out_is_repacked |-> FALSE, groups |-> <<>>,
   handed |-> <<>>, called |-> FALSE]

RepackInit ==
  /\ DedupIdle /\ AxisIdle /\ JitIdle /\ RefIdle
  /\ pc = "start"
  /\ heap = OuterForest(ColNames)
  /\ heap0 = heap
  /\ tree \in PackTrees
  /\ filters = [in |-> <<TrueFilter>>, out |-> <<TrueFilter>>, rng |-> <<TrueFilter>>]
  /\ payload = RepackLocals
  /\ scopes = <<>> /\ paths = <<>> /\ variable_groups_xs = <<>>
  /\ rng_groups_xs = <<>> /\ inner_scopes = <<>> /\ gen = 0
  /\ puts = <<>> /\ outcome = NoOutcome

\* The payload calls scope_fn with the groups it was given.
RepackScopeFn ==
  /\ pc = "payload" /\ gen = 0
  /\ LET r == scope_fn(heap, inner_scopes, variable_groups_xs, rng_groups_xs,
                       scopes, paths, filters.out, 1)
     IN  /\ heap' = r.heap
         /\ inner_scopes' = r.inner_scopes
         /\ payload' = [payload EXCEPT !.tree = r.inner_scopes,
                                       !.groups = variable_groups_xs]
  /\ gen' = 1
  /\ UNCHANGED <<dvars, avars, jvars, rvars, pc, heap0, tree, filters, scopes, paths,
                 variable_groups_xs, rng_groups_xs, puts, outcome>>

\* The trees of the same shape a payload can hand to repack: the one it got
\* from scope_fn, that one with one position holding another scope scope_fn
\* created, or with two positions exchanged.
HandedTrees(h, t) ==
  {t} \cup {[t EXCEPT ![i] = s] :
              i \in 1..Len(t), s \in {x \in 1..Len(h) : h[x].gen > 0}}
      \cup {[t EXCEPT ![i] = t[j], ![j] = t[i]] : i \in 1..Len(t), j \in 1..Len(t)}

\* The payload calls repack (lift.py:133-151) and returns what it got.
RepackCallOn ==
  /\ pc = "payload" /\ gen = 1 /\ ~payload.called
  /\ \E t \in HandedTrees(heap, payload.tree) :
       LET r == repack(heap, t, paths, filters.out)
       IN  /\ heap' = r.heap
           /\ IF r.err = ""
              THEN /\ payload' = [payload EXCEPT
                         !.handed = t, !.called = TRUE, !.tree_repacked = TRUE,
                         !.repacked = r.out, !.has_repacked = TRUE,
                         !.out = r.out, !.out_is_repacked = TRUE, !.y = "y0"]
                   /\ pc' = "returned"
                   /\ UNCHANGED outcome
              ELSE /\ payload' = [payload EXCEPT !.handed = t, !.called = TRUE,
                                                 !.tree_repacked = TRUE]
                   /\ pc' = "raising"
                   /\ outcome' = Raised(r.err, r.remainder, "payload")
  /\ UNCHANGED <<dvars, avars, jvars, rvars, heap0, tree, filters, scopes, paths,
                 variable_groups_xs, rng_groups_xs, inner_scopes, gen, puts>>

RepackNext ==
  \/ PackEnter
  \/ RepackScopeFn
  \/ RepackCallOn
  \/ PackFinally
  \/ PackWriteBack

SpecRepack == RepackInit /\ [][RepackNext]_vars

\* ------------------------------------------------------------- SpecMutable

\* pack.wrapper over outer scopes whose own `mutable` attribute differs from
\* that of their root, with a payload that calls scope_fn and tries to write
\* a variable of a scope of the tree it got.

\* The outer forest with the filter root_mutable on the roots and
\* child_mutable on every other scope.
MutableForest(root_mutable, child_mutable) ==
  [i \in OuterIds |->
     [OuterForest(root_mutable)[i] EXCEPT
        !.mutable = IF OuterShape[i].parent = None THEN root_mutable
                    ELSE child_mutable]]

MutableLocals ==
  [tree |-> <<>>, tree_repacked |-> FALSE, repacked |-> <<>>,
   has_repacked |-> FALSE, writes |-> 0, y |-> "", out |-> <<>>,
   out_is_repacked |-> FALSE, groups |-> <<>>,
   put_at |-> 0, put_col |-> "", put_err |-> ""]

MutableInit ==
  /\ DedupIdle /\ AxisIdle /\ JitIdle /\ RefIdle
  /\ pc = "start"
  /\ \E root_mutable \in SUBSET ColNames, child_mutable \in SUBSET ColNames :
       heap = MutableForest(root_mutable, child_mutable)
  /\ heap0 = heap
  /\ tree \in PackTrees
  /\ filters \in FilterChoices
  /\ payload = MutableLocals
  /\ scopes = <<>> /\ paths = <<>> /\ variable_groups_xs = <<>>
  /\ rng_groups_xs = <<>> /\ inner_scopes = <<>> /\ gen = 0
  /\ puts = <<>> /\ outcome = NoOutcome

\* The payload calls scope_fn with the groups it was given.
MutableScopeFn ==
  /\ pc = "payload" /\ gen < MaxScopeFn /\ payload.put_at = 0
  /\ LET r == scope_fn(heap, inner_scopes, variable_groups_xs, rng_groups_xs,
                       scopes, paths, filters.out, gen + 1)
     IN  /\ heap' = r.heap
         /\ inner_scopes' = r.inner_scopes
         /\ payload' = [payload EXCEPT !.tree = r.inner_scopes,
                                       !.groups = variable_groups_xs]
  /\ gen' = gen + 1
  /\ UNCHANGED <<dvars, avars, jvars, rvars, pc, heap0, tree, filters, scopes, paths,
                 variable_groups_xs, rng_groups_xs, puts, outcome>>

\* The payload writes a variable of a scope of the tree it holds; a refused
\* write raises out of the payload.
MutableWrite ==
  /\ pc = "payload" /\ payload.put_at = 0
  /\ \E i \in 1..Len(payload.tree), c \in ColNames :
       LET s == payload.tree[i]
           r == put_variable(heap, s, c, "w", OtherValue(heap, s, c, "w"))
       IN  /\ heap' = r.heap
           /\ payload' = [payload EXCEPT !.put_at = i, !.put_col = c,
                                         !.put_err = r.err, !.writes = @ + 1]
           /\ IF r.err = ""
              THEN UNCHANGED <<pc, outcome>>
              ELSE /\ pc' = "raising"
                   /\ outcome' = Raised(r.err, <<>>, "payload")
  /\ UNCHANGED <<dvars, avars, jvars, rvars, heap0, tree, filters, scopes, paths,
                 variable_groups_xs, rng_groups_xs, inner_scopes, gen, puts>>

MutableNext ==
  \/ PackEnter
  \/ MutableScopeFn
  \/ MutableWrite
  \/ PayloadRaise
  \/ PackFinally

SpecMutable == MutableInit /\ [][MutableNext]_vars

\* ----------------------------------------------------------------- SpecJit

\* The largest argument position and the most positions in static_argnums.
MaxArgnum == 3

MaxStatic == 3

StaticArgnumsChoices ==
  {StaticArgnums(FALSE, i, <<>>) : i \in 0..MaxArgnum}
    \cup {StaticArgnums(TRUE, 0, q) :
            q \in UNION {[1..n -> 0..MaxArgnum] : n \in 0..MaxStatic}}

JitInit ==
  /\ DedupIdle /\ PackIdle /\ AxisIdle /\ RefIdle
  /\ j_pc = "input"
  /\ j_static_argnums \in StaticArgnumsChoices
  /\ j_jitted = <<>>

\* jit(fn, static_argnums) up to the definition of inner (lift.py:589-591).
JitWrap ==
  /\ j_pc = "input"
  /\ j_jitted' = jit_static_argnums(j_static_argnums)
  /\ j_pc' = "wrapped"
  /\ UNCHANGED <<j_static_argnums, dvars, pvars, avars, rvars>>

JitNext == JitWrap

SpecJit == JitInit /\ [][JitNext]_vars

\* ----------------------------------------------------------------- SpecRef

\* pack.wrapper on one scope with the collections as objects: the entry, the
\* payload's calls of scope_fn and its writes to the inner scope.

RefInit ==
  /\ DedupIdle /\ PackIdle /\ AxisIdle /\ JitIdle
  /\ r_pc = "start"
  /\ \E m \in {ColNames, {"state"}, {"params"}}, f \in FilterChoices, sh \in BOOLEAN :
       /\ r_call = [mutable |-> m, in |-> f.in, out |-> f.out, shared |-> sh]
       /\ r_store = <<OuterVariables(1, m)["params"], OuterVariables(1, m)["state"]>>
  /\ r_outer = [c \in ColNames |-> IF c = "params" THEN 1 ELSE 2]
  /\ r_groups = <<>> /\ r_inner = <<>> /\ r_writes = 0

\* pack.wrapper up to the invocation of the payload (lift.py:84-98).
RefEnter ==
  /\ r_pc = "start"
  /\ LET g == RefVariableGroups(r_store, r_outer, r_call.in, r_call.out, r_call.shared)
     IN  r_store' = g.store /\ r_groups' = g.groups
  /\ r_pc' = "payload"
  /\ UNCHANGED <<r_call, r_outer, r_inner, r_writes, dvars, pvars, avars, jvars>>

\* The payload calls scope_fn with the groups it was given (lift.py:108-131).
RefScopeFn ==
  /\ r_pc = "payload"
  /\ Len(r_inner) < MaxScopeFn
  /\ LET r == RefInnerScope(r_store, r_groups, r_call.mutable, r_call.out)
     IN  /\ r_store' = r.store
         /\ r_inner' = Append([i \in 1..Len(r_inner) |->
                                 [r_inner[i] EXCEPT !.invalid = TRUE]], r.scope)
  /\ r_writes' = 0
  /\ UNCHANGED <<r_pc, r_call, r_outer, r_groups, dvars, pvars, avars, jvars>>

\* The payload writes a variable of the current inner scope; a refused write
\* raises out of the payload.
RefWrite ==
  /\ r_pc = "payload"
  /\ r_inner # <<>>
  /\ r_writes < MaxWrites
  /\ \E c \in ColNames, v \in Values :
       LET scope == r_inner[Len(r_inner)]
           r == RefPutVariable(r_store, scope, c, "w", v)
       IN  /\ c \in DOMAIN scope.variables => r_store[scope.variables[c]].vals["w"] # v
           /\ r_store' = r.store
           /\ r_inner' = [r_inner EXCEPT ![Len(r_inner)] = r.scope]
           /\ r_pc' = IF r.err = "" THEN "payload" ELSE "failed"
  /\ r_writes' = r_writes + 1
  /\ UNCHANGED <<r_call, r_outer, r_groups, dvars, pvars, avars, jvars>>

\* The payload returns and the inner scopes are invalidated (lift.py:155-157).
RefReturn ==
  /\ r_pc = "payload"
  /\ r_inner' = [i \in 1..Len(r_inner) |-> [r_inner[i] EXCEPT !.invalid = TRUE]]
  /\ r_pc' = "done"
  /\ UNCHANGED <<r_call, r_store, r_outer, r_groups, r_writes, dvars, pvars, avars, jvars>>

RefNext == RefEnter \/ RefScopeFn \/ RefWrite \/ RefReturn

SpecRef == RefInit /\ [][RefNext]_vars

\* ------------------------------------------------- claims on SpecDedup

\* The input scopes with no proper ancestor among the input, each once, in
\* the order of their first appearance.
RECURSIVE FirstAppearances(_, _, _, _)
FirstAppearances(h, in, i, acc) ==
  IF i > Len(in) THEN acc
  ELSE FirstAppearances(h, in, i + 1,
         IF /\ ~InSeq(in[i], acc)
            /\ ~\E j \in 1..Len(in) : IsAncestor(h, in[j], in[i])
         THEN Append(acc, in[i]) ELSE acc)

DedupContract(h, in, res) ==
  /\ res.err = ""
  /\ res.scopes = FirstAppearances(h, in, 1, <<>>)
  /\ Len(res.paths) = Len(in)
  /\ \A i \in 1..Len(in) :
       /\ InSeq(res.paths[i].root, res.scopes)
       /\ IsSelfOrAncestor(h, res.paths[i].root, in[i])
       /\ res.paths[i].path = ChainDown(h, res.paths[i].root, in[i])
       /\ \A k \in 1..Len(res.scopes) :
            IsSelfOrAncestor(h, res.scopes[k], in[i]) => res.scopes[k] = res.paths[i].root
  /\ \A k, l \in 1..Len(res.scopes) : ~IsAncestor(h, res.scopes[k], res.scopes[l])

\* C1: for any ordered input of scope handles _dedup_scopes returns, as roots,
\* exactly the input scopes with no proper ancestor among the input, in order
\* of first appearance, and for every handle the pair (root, path) of its one
\* root and the child names from that root down to it; no root is an ancestor
\* of another root.
C1_DedupRootsAndPaths ==
  d_pc # "input" => DedupContract(BareForest, d_in, d_res)

\* The same contract, for the calls that return (no KeyError).
DedupContractWhenReturned ==
  d_pc \in {"deduped", "duped"} => DedupContract(BareForest, d_in, d_res)

\* The index of the canonical root of handle s among the roots.
RootIndex(h, roots, s) ==
  CHOOSE k \in 1..Len(roots) : IsSelfOrAncestor(h, roots[k], s)

RoundTrip ==
  /\ Len(d_out) = Len(d_in)
  /\ \A i \in 1..Len(d_in) :
       LET k == RootIndex(d_heap, d_res.scopes, d_in[i])
       IN  /\ TopOf(d_heap, d_out[i]) = d_fresh[k]
           /\ NamesFromTop(d_heap, d_out[i])
                = <<d_heap[d_res.scopes[k]].name>>
                    \o ChainDown(d_heap, d_res.scopes[k], d_in[i])
  /\ \A i, j \in 1..Len(d_in) : (d_out[i] = d_out[j]) <=> (d_in[i] = d_in[j])

\* C2: for any sequence of scope handles, _dedup_scopes followed by
\* _dup_scopes against fresh parentless roots yields one scope per handle, in
\* order, with the same chain of names below its root, two results being the
\* same scope exactly when the two handles were.
C2_DedupDupRoundTrip ==
  /\ d_pc # "failed"
  /\ d_pc = "duped" => RoundTrip

\* The round trip for the inputs _dedup_scopes accepts.
RoundTripWhenReturned == d_pc = "duped" => RoundTrip

\* The input [A, A.child, A.child] has been handed to _dedup_scopes.
DuplicateChildInput == d_pc = "failed" /\ d_in = <<1, 2, 2>>

\* C18: _dedup_scopes completes without raising for every sequence of scope
\* handles of a forest, also when a handle occurs more than once while one
\* of its ancestors is in the sequence, as in [A, A.child, A.child].
C18_DedupNeverRaises == d_res.err = ""

\* Some handle occurs twice in the input and has a proper ancestor in it.
RepeatedDescendant(h, in) ==
  \E i, j \in 1..Len(in) :
     /\ i < j /\ in[i] = in[j]
     /\ \E k \in 1..Len(in) : IsAncestor(h, in[k], in[i])

\* _dedup_scopes raises (KeyError) exactly on the inputs in which a handle
\* occurs twice while one of its proper ancestors is present.
DedupRaisesOnRepeatedDescendant ==
  d_pc # "input" => ((d_res.err # "") <=> RepeatedDescendant(BareForest, d_in))

\* ------------------------------------------------------ claims on Spec

\* Collection name c matches at least one entry of out_variable_filters.
MatchesOut(c) == c \in UNION {filters.out[k] : k \in 1..Len(filters.out)}

\* The inner scopes: the scope objects a scope_fn invocation created.
InnerIds == {s \in 1..Len(heap) : heap[s].gen > 0}

LiveInner == {s \in InnerIds : ~heap[s].invalid}

\* C3: at every instant all inner scopes that are not invalidated belong to
\* the most recent scope_fn invocation.
C3_OneLiveGeneration == \A s \in LiveInner : heap[s].gen = gen

\* A second scope_fn invocation has left an inner scope of the first one
\* alive: the scope pushed for the skipped level of the path (b, c).
StaleIntermediateScope ==
  /\ tree = <<1, 3>> /\ gen = 2
  /\ \E s \in LiveInner : heap[s].gen = 1 /\ heap[s].name = "b"

\* The inner scopes scope_fn pushed on the way to a handle without returning
\* them: they have a child and no input handle has their chain of names.
OnlyIntermediateScopesLeak ==
  \A s \in LiveInner :
    heap[s].gen # gen =>
      /\ \E t \in InnerIds : heap[t].parent = s
      /\ heap[s].parent # None
      /\ tree \in {<<1, 3>>, <<3, 5, 1>>}

\* C4: when the packed function has returned or an exception has reached its
\* caller, no inner scope created by a scope_fn invocation is still valid.
C4_NoInnerScopeSurvives == pc \in {"done", "failed"} => LiveInner = {}

\* The call has ended with an inner scope still valid.
SurvivingInnerScope == pc = "done" /\ tree = <<1, 3>> /\ LiveInner # {}

\* The outer scopes' variable collections are those of the beginning.
OuterUnchanged == \A i \in OuterIds : heap[i].variables = heap0[i].variables

\* C5: no put_variable is issued on an outer scope before the payload has
\* returned, the write-back happens at the very end, and when the payload
\* raises the outer collections keep their pre-call values.
C5_OuterWrittenOnlyAtEnd ==
  /\ pc \in {"start", "payload", "returned", "raising", "writeback"} =>
       puts = <<>> /\ OuterUnchanged
  /\ (pc = "failed" /\ outcome.at # "writeback") => puts = <<>> /\ OuterUnchanged
  /\ puts # <<>> => pc \in {"done", "failed"}

\* The payload wrote an inner variable and then raised.
RaisedAfterInnerWrite ==
  pc = "failed" /\ outcome.at = "payload" /\ payload.writes > 0 /\ gen > 0

\* Collection c of outer scope i is what it was before the call.
SameCollection(i, c) ==
  /\ c \in DOMAIN heap[i].variables <=> c \in DOMAIN heap0[i].variables
  /\ c \in DOMAIN heap[i].variables => heap[i].variables[c] = heap0[i].variables[c]

\* C6: when the payload returns as its output groups what repack produced,
\* every outer collection whose name matches none of out_variable_filters
\* has after the call exactly the value it had before.
C6_NonOutCollectionsKept ==
  (pc \in {"done", "failed"} /\ payload.out_is_repacked) =>
    \A i \in OuterIds, c \in ColNames :
      ~MatchesOut(c) => SameCollection(i, c)

\* A call that returned repack's groups has written an outer variable while
\* some collection is input-only.
WroteBackWithInputOnly ==
  /\ pc = "done" /\ payload.out_is_repacked /\ ~OuterUnchanged
  /\ \E c \in ColNames : ~MatchesOut(c)

\* The non-frozen collections of inner scope s that no out filter selects.
Unmapped(h, s) ==
  {c \in DOMAIN h[s].variables :
     ~h[s].variables[c].frozen /\ ~MatchesOut(c)}

\* The inner root scopes of a flattened tree, in the order in which they
\* appear in it.
TopsOf(h, t) == FirstAppearances(h, t, 1, <<>>)

SeqRange(q) == {q[i] : i \in 1..Len(q)}

\* The step is a call of repack by the payload.
RepackCall == pc = "payload" /\ ~payload.tree_repacked /\ payload'.tree_repacked

\* C7: repack raises 'unmapped output variables' exactly when an inner scope
\* it harvests holds a non-frozen collection that no out filter selects, the
\* error naming exactly those collections (of the scope at which the harvest
\* stops); otherwise it returns, per canonical scope, a tuple of
\* len(out_variable_filters) groups.
C7_UnmappedOutputError ==
  [][RepackCall =>
       LET tops == TopsOf(heap, payload.tree)
           bad  == {k \in 1..Len(tops) : Unmapped(heap, tops[k]) # {}}
       IN  IF bad = {}
           THEN /\ pc' = "payload"
                /\ Len(payload'.repacked) = Len(scopes)
                /\ \A k \in 1..Len(scopes) :
                     Len(payload'.repacked[k]) = Len(filters.out)
           ELSE /\ pc' = "raising"
                /\ outcome'.value = "unmapped output variables"
                /\ SeqRange(outcome'.remainder)
                     = Unmapped(heap, tops[CHOOSE k \in bad : \A l \in bad : k <= l])
  ]_vars

\* repack has raised at the first of two inner scopes that both hold an
\* unmapped collection, and not the same one.
UnmappedRaised ==
  /\ pc = "raising" /\ outcome.value = "unmapped output variables"
  /\ Len(scopes) = 2 /\ outcome.remainder # <<>>
  /\ LET tops == TopsOf(heap, payload.tree)
     IN  /\ Len(tops) = 2
         /\ Unmapped(heap, tops[2]) # {}
         /\ Unmapped(heap, tops[1]) # Unmapped(heap, tops[2])
         /\ SeqRange(outcome.remainder) = Unmapped(heap, tops[1])

\* C8: when the payload is invoked, every collection in the groups handed to
\* it that no out filter selects is a frozen snapshot; the collections some
\* out filter selects are as the outer scope holds them (pack does not
\* freeze them).
C8_InputOnlyFrozen ==
  pc = "payload" =>
    \A i \in 1..Len(variable_groups_xs) :
      \A k \in 1..Len(variable_groups_xs[i]) :
        \A c \in DOMAIN variable_groups_xs[i][k] :
          /\ variable_groups_xs[i][k][c].vals = heap0[scopes[i]].variables[c].vals
          /\ IF MatchesOut(c)
             THEN variable_groups_xs[i][k][c].frozen
                    = heap0[scopes[i]].variables[c].frozen
             ELSE variable_groups_xs[i][k][c].frozen

\* pack has frozen a plain dict of the outer scope and has left another one
\* unfrozen.
FrozeAPlainDict ==
  /\ pc = "payload"
  /\ \E i \in 1..Len(variable_groups_xs), k \in 1..Len(filters.in) :
       \E c \in DOMAIN variable_groups_xs[i][k] :
         /\ ~heap0[scopes[i]].variables[c].frozen
         /\ variable_groups_xs[i][k][c].frozen
  /\ \E i \in 1..Len(variable_groups_xs), k \in 1..Len(filters.in) :
       \E c \in DOMAIN variable_groups_xs[i][k] : ~variable_groups_xs[i][k][c].frozen

\* The (collection, name, value) entries of the output groups at position i.
OutEntries(i) ==
  IF i > Len(payload.out) THEN {}
  ELSE {e \in ColNames \X VarNames \X Values :
          \E k \in 1..Len(payload.out[i]) :
            /\ e[1] \in DOMAIN payload.out[i][k]
            /\ e[2] \in DOMAIN payload.out[i][k][e[1]].vals
            /\ payload.out[i][k][e[1]].vals[e[2]] = e[3]}

\* The (collection, name, value) of the put_variable calls issued on scope s.
PutsOn(s) ==
  {<<puts[j].col, puts[j].name, puts[j].value>> :
     j \in {x \in 1..Len(puts) : puts[x].scope = s}}

\* C9: the write-back issues, for every entry of the output groups at
\* position i, a put_variable on the i-th canonical outer scope and on no
\* other scope; a scope that is not a canonical root receives no
\* put_variable; the packed function returns the payload's result value.
C9_WriteBackRouting ==
  /\ \A j \in 1..Len(puts) : InSeq(puts[j].scope, scopes)
  /\ pc = "done" =>
       /\ \A i \in 1..Len(scopes) :
            /\ PutsOn(scopes[i]) = OutEntries(i)
            /\ \A e \in OutEntries(i) :
                 /\ e[1] \in DOMAIN heap[scopes[i]].variables
                 /\ e[2] \in DOMAIN heap[scopes[i]].variables[e[1]].vals
                 /\ heap[scopes[i]].variables[e[1]].vals[e[2]] = e[3]
       /\ \A o \in OuterIds \ SeqRange(scopes) :
            heap[o].variables = heap0[o].variables
       /\ outcome.kind = "value" /\ outcome.value = payload.y
  /\ (pc = "failed" /\ outcome.at = "writeback") =>
       \A i \in 1..Len(scopes) : PutsOn(scopes[i]) \subseteq OutEntries(i)

\* A call on two canonical scopes has written to the second one a value the
\* payload produced, and has returned.
WroteBackToSecondScope ==
  /\ pc = "done" /\ Len(scopes) = 2 /\ tree = <<3, 5, 1>>
  /\ PutsOn(scopes[2]) # {} /\ payload.out_is_repacked
  /\ heap[scopes[2]].variables # heap0[scopes[2]].variables

\* The reads of inner scopes' variables the payload's call of repack makes
\* from this state.
RepackReads == repack_reads(heap, payload.tree, paths, filters.out)

\* The payload can call repack on the tree it holds.
RepackEnabled == pc = "payload" /\ gen > 0 /\ ~payload.tree_repacked

\* C19: pack and its helpers read or write the variables of an inner scope
\* only while the scope is valid: no read of repack is of a scope that is
\* invalidated when it is read.
C19_NoAccessAfterInvalidate ==
  RepackEnabled => \A k \in 1..Len(RepackReads) : ~RepackReads[k].invalid

\* What holds instead: every scope repack reads was valid when repack was
\* called and has been invalidated by repack itself right before the read.
RepackReadsJustInvalidated ==
  RepackEnabled =>
    \A k \in 1..Len(RepackReads) :
       RepackReads[k].was_valid /\ RepackReads[k].invalid

\* The payload is about to call repack on a tree of two root scopes.
RepackOfTwoScopes == RepackEnabled /\ Len(RepackReads) = 2

\* The groups of scope i that hold collection c.
GroupsHolding(i, c) ==
  {k \in 1..Len(variable_groups_xs[i]) : c \in DOMAIN variable_groups_xs[i][k]}

\* The in filters that select collection c.
InFiltersSelecting(c) == {k \in 1..Len(filters.in) : in_filter(filters.in[k], c)}

\* C20, as stated: the payload receives len(in_variable_filters) + 1 groups
\* per canonical scope, the last one the remainder, and every collection of
\* the scope is in exactly one of them: the group of the first filter that
\* selects it, or the remainder when none does.
C20_InputGroupsWithRemainder ==
  pc = "payload" =>
    \A i \in 1..Len(scopes) :
      /\ Len(variable_groups_xs[i]) = Len(filters.in) + 1
      /\ \A c \in DOMAIN heap0[scopes[i]].variables :
           GroupsHolding(i, c) =
             IF InFiltersSelecting(c) # {}
             THEN {CHOOSE k \in InFiltersSelecting(c) :
                     \A l \in InFiltersSelecting(c) : k <= l}
             ELSE {Len(filters.in) + 1}

\* C20, as the code has it: the payload receives len(in_variable_filters)
\* groups per canonical scope and no remainder group; a collection some
\* filter selects is in the group of the first such filter and in no other,
\* a collection no filter selects is in no group.
C20_InputGroupsPerFilter ==
  pc = "payload" =>
    /\ Len(variable_groups_xs) = Len(scopes)
    /\ \A i \in 1..Len(scopes) :
         /\ Len(variable_groups_xs[i]) = Len(filters.in)
         /\ \A k \in 1..Len(variable_groups_xs[i]) :
              DOMAIN variable_groups_xs[i][k] \subseteq DOMAIN heap0[scopes[i]].variables
         /\ \A c \in DOMAIN heap0[scopes[i]].variables :
              GroupsHolding(i, c) =
                IF InFiltersSelecting(c) # {}
                THEN {CHOOSE k \in InFiltersSelecting(c) :
                        \A l \in InFiltersSelecting(c) : k <= l}
                ELSE {}

\* The payload has been given one group for one filter, and a collection of
\* the scope is in no group.
CollectionInNoGroup ==
  /\ pc = "payload" /\ Len(filters.in) = 1
  /\ Len(scopes) >= 1 /\ Len(variable_groups_xs[1]) = 1
  /\ "state" \in DOMAIN heap0[scopes[1]].variables
  /\ GroupsHolding(1, "state") = {}
  /\ GroupsHolding(1, "params") = {1}

\* ---------------------------------------------------- claims on SpecAxis

\* The sizes, along the axis of entry `axis`, of the leaves of x: of all of
\* them, or of the first one only.
LeafSizes(axis, x) ==
  IF axis = NoAxis THEN {} ELSE {x[j][axis[1] + 1] : j \in 1..Len(x)}

FirstLeafSize(axis, x) ==
  IF axis = NoAxis \/ x = <<>> THEN {} ELSE {x[1][axis[1] + 1]}

\* The sizes of the axis-mapped leaves among the inputs the call inspects:
\* the positional arguments and, for vmap, the variable groups.
MappedLeafSizes ==
  LET c == a_call
      as == IF c.in_axes.whole
            THEN LeafSizes(c.in_axes.axes[1], Flatten(c.args))
            ELSE UNION {LeafSizes(c.in_axes.axes[i], c.args[i]) : i \in 1..Len(c.args)}
      vs == UNION {LeafSizes(c.variable_in_axes[k], c.variable_groups_xs[i][k]) :
                     i \in 1..Len(c.variable_groups_xs),
                     k \in 1..Len(c.variable_in_axes)}
  IN  IF a_pc = "vmap" THEN as \cup vs ELSE as

\* The sizes of the first leaf under each entry of in_axes (and, for vmap,
\* of variable_in_axes) that is not None.
FirstLeafSizes ==
  LET c == a_call
      as == IF c.in_axes.whole
            THEN FirstLeafSize(c.in_axes.axes[1], Flatten(c.args))
            ELSE UNION {FirstLeafSize(c.in_axes.axes[i], c.args[i]) : i \in 1..Len(c.args)}
      vs == UNION {FirstLeafSize(c.variable_in_axes[k], c.variable_groups_xs[i][k]) :
                     i \in 1..Len(c.variable_groups_xs),
                     k \in 1..Len(c.variable_in_axes)}
  IN  IF a_pc = "vmap" THEN as \cup vs ELSE as

InconsistencyError ==
  IF a_pc = "vmap" THEN "Inconsistent batch axis sizes" ELSE "Inconsistent scan lengths"

\* C10: vmap (scan) raises the inconsistency error, listing the sizes found,
\* whenever two axis-mapped leaves among the inspected inputs differ in size
\* along their mapped axis, with or without an explicit axis_size (length).
C10_InconsistentSizesDetected ==
  a_pc \in {"vmap", "scan"} /\ Cardinality(MappedLeafSizes) > 1 =>
    a_res.err = InconsistencyError /\ a_res.sizes = MappedLeafSizes

\* C10, as the code has it: the error is raised, listing the sizes found,
\* exactly when the first leaves under two entries of in_axes (for vmap also
\* of variable_in_axes) that are not None differ in size along their axis,
\* with or without an explicit axis_size (length); leaves after the first
\* under one entry are not inspected.
C10_InconsistentFirstLeavesDetected ==
  a_pc \in {"vmap", "scan"} =>
    IF Cardinality(FirstLeafSizes) > 1
    THEN a_res.err = InconsistencyError /\ a_res.sizes = FirstLeafSizes
    ELSE a_res.err # InconsistencyError

\* Two arguments of leading sizes 4 and 5, each under its own axis-0 entry of
\* in_axes, with an explicit axis_size: the error lists {4, 5}.
RaisedInconsistentWithExplicitSize ==
  /\ a_pc = "vmap" /\ a_call.size # None
  /\ a_call.args = << <<<<4, 5>>>>, <<<<5, 4>>>> >>
  /\ a_call.in_axes = [whole |-> FALSE, axes |-> <<<<0>>, <<0>>>>]
  /\ a_res.err = "Inconsistent batch axis sizes" /\ a_res.sizes = {4, 5}

\* The same two arguments under in_axes = 0: no inconsistency error.
UndetectedInconsistentArgs ==
  /\ a_pc = "vmap"
  /\ a_call.args = << <<<<4, 5>>>>, <<<<5, 4>>>> >>
  /\ a_call.in_axes = [whole |-> TRUE, axes |-> <<<<0>>>>]
  /\ a_call.variable_groups_xs = <<>>
  /\ a_res.err # "Inconsistent batch axis sizes"

\* The error that asks for an explicit size.
SpecifyManuallyError ==
  IF a_pc = "vmap" THEN "axis_size should be specified manually."
  ELSE "length should be specified manually."

\* The outcome of size inference for the set `found` of sizes the inputs
\* yield: one size and no explicit value, that size; no size and no explicit
\* value, the error; no size and an explicit value, that value.
InferredFrom(found) ==
  /\ (Cardinality(found) = 1 /\ a_call.size = None) =>
       a_res.err = "" /\ a_res.size \in found
  /\ (found = {} /\ a_call.size = None) => a_res.err = SpecifyManuallyError
  /\ (found = {} /\ a_call.size # None) =>
       a_res.err = "" /\ a_res.size = a_call.size

\* C11: in vmap and scan, when the inspected axis-mapped inputs yield exactly
\* one size and no axis_size/length is given, that size is used; when they
\* yield none and no value is given, the call fails asking for it to be
\* specified manually; when they yield none and a value is given, the value
\* is used.  It holds for the sizes of the first leaves, which the code
\* inspects, and for the sizes of all axis-mapped leaves.
C11_SizeInference ==
  a_pc \in {"vmap", "scan"} =>
    InferredFrom(FirstLeafSizes) /\ InferredFrom(MappedLeafSizes)

\* Two arguments of leading sizes 4 and 4 under axis 0, no explicit
\* axis_size: 4 is used.
InferredFour ==
  /\ a_pc = "vmap" /\ a_call.size = None
  /\ a_call.args = << <<<<4, 5>>>>, <<<<4, 5>>>> >>
  /\ a_call.in_axes = [whole |-> FALSE, axes |-> <<<<0>>, <<0>>>>]
  /\ a_res.err = "" /\ a_res.size = 4

\* ---------------------------------------------------- claims on SpecScan

\* The names of the carry collections: those variable_carry selects and
\* variable_broadcast, the filter before it, does not.
CarryNames == payload.variable_carry \ payload.variable_broadcast

\* The values of the carry collections among `variables`.
CarryValues(variables) ==
  [c \in DOMAIN variables \cap CarryNames |-> variables[c].vals]

\* The values of the collections of one group.
GroupValues(group) == [c \in DOMAIN group |-> group[c].vals]

\* C12: in a lifted scan the inner scope of iteration k+1 holds for each carry
\* collection exactly the value repack returned for it at the end of
\* iteration k (iteration 1 sees the outer scope's pre-loop value); what the
\* last iteration returned is what pack writes back; a counter incremented in
\* every step ends, in the outer scope, at its initial value plus the number
\* of steps.
C12_ScanCarryThreading ==
  /\ (pc = "payload" /\ payload.phase = "body") =>
       LET tops == TopsOf(heap, payload.tree)
       IN  /\ Len(tops) = Len(scopes)
           /\ \A i \in 1..Len(scopes) :
                CarryValues(heap[tops[i]].variables) =
                  IF payload.iter = 0
                  THEN CarryValues(heap0[scopes[i]].variables)
                  ELSE GroupValues(payload.repacked[i][2])
  /\ (pc = "done" /\ payload.phase = "returned") =>
       /\ \A i \in 1..Len(scopes) :
            \A c \in DOMAIN payload.repacked[i][2] :
              \A n \in DOMAIN payload.repacked[i][2][c].vals :
                /\ c \in DOMAIN heap[scopes[i]].variables
                /\ n \in DOMAIN heap[scopes[i]].variables[c].vals
                /\ heap[scopes[i]].variables[c].vals[n]
                     = payload.repacked[i][2][c].vals[n]
       /\ ("inc" \in payload.body /\ "state" \in CarryNames) =>
            \A i \in 1..Len(scopes) :
              CounterOf(heap, scopes[i]) = CounterOf(heap0, scopes[i]) + payload.d_length

\* A scan of three steps over two scopes whose body incremented the carried
\* counter in every step has returned: both outer counters are three higher.
CarriedThreeSteps ==
  /\ pc = "done" /\ payload.phase = "returned" /\ payload.d_length = 3
  /\ "inc" \in payload.body /\ "state" \in CarryNames
  /\ scopes = <<1, 5>>
  /\ CounterOf(heap, 1) = CounterOf(heap0, 1) + 3
  /\ CounterOf(heap, 5) = CounterOf(heap0, 5) + 3

\* The names of the broadcast collections.
BroadcastNames == payload.variable_broadcast

\* The broadcast collections of scope position i that are a FrozenDict when
\* the loop has ended.
StillImmutable(i) ==
  {c \in DOMAIN payload.broadcast_vars[i] : payload.broadcast_vars[i][c].frozen}

\* C13: a broadcast collection the loop body never writes has the same outer
\* value after the scan as before it; every broadcast collection that is
\* still an immutable snapshot after the loop is absent from the output
\* groups scan returns to pack, and no put_variable is issued for it on the
\* outer scope.
C13_ScanBroadcastPassThrough ==
  /\ (pc = "done" /\ payload.phase = "returned" /\ "touch" \notin payload.body) =>
       \A i \in 1..Len(scopes) :
         \A c \in BroadcastNames :
           /\ c \in DOMAIN heap[scopes[i]].variables
                <=> c \in DOMAIN heap0[scopes[i]].variables
           /\ c \in DOMAIN heap0[scopes[i]].variables =>
                heap[scopes[i]].variables[c] = heap0[scopes[i]].variables[c]
  /\ payload.phase = "returned" =>
       \A i \in 1..Len(scopes) :
         \A c \in StillImmutable(i) :
           /\ \A k \in 1..Len(payload.out[i]) : c \notin DOMAIN payload.out[i][k]
           /\ \A j \in 1..Len(puts) :
                ~(puts[j].scope = scopes[i] /\ puts[j].col = c)

\* A scan over two scopes whose broadcast collection "params" is immutable
\* has returned and written its carry back, the body having left "params"
\* alone.
BroadcastLeftAlone ==
  /\ pc = "done" /\ payload.phase = "returned" /\ "touch" \notin payload.body
  /\ scopes = <<1, 5>> /\ puts # <<>>
  /\ StillImmutable(1) = {"params"} /\ StillImmutable(2) = {"params"}

\* ------------------------------------------------ claims on SpecTransform

\* The root scope fn is given in the current run.
RunScope == RootsOfTree(heap, payload.tree)[1]

\* The (collection, name, value) entries of a group of collections.
EntriesOf(group) ==
  {e \in (DOMAIN group) \X VarNames \X Values :
     e[2] \in DOMAIN group[e[1]].vals /\ group[e[1]].vals[e[2]] = e[3]}

\* What the main run starts from when the init run has returned
\* init_repacked: its target through trans_out_fn, then trans_in_fn.
ExpectedTarget ==
  GroupValues(trans_in_fn(payload.trans_in,
                          trans_out_fn(payload.trans_out, payload.init_repacked[1][1])))

\* C14: with init, fn runs exactly twice and without init exactly once; with
\* init the target the second run starts from is the first run's repacked
\* target passed through trans_out_fn and then trans_in_fn, every non-target
\* collection the second run sees has its value of before the call, and what
\* is written back is the second run's repacked output only.
C14_TransformInitRuns ==
  /\ payload.runs <= (IF payload.init THEN 2 ELSE 1)
  /\ pc \in {"returned", "writeback", "done"} =>
       payload.runs = (IF payload.init THEN 2 ELSE 1)
  /\ (pc = "payload" /\ payload.phase = "run2" /\ payload.init) =>
       LET v == heap[RunScope].variables
       IN  /\ DOMAIN v \cap {"params"} = DOMAIN ExpectedTarget
           /\ \A c \in DOMAIN ExpectedTarget : v[c].vals = ExpectedTarget[c]
           /\ DOMAIN v \ {"params"} = DOMAIN variable_groups_xs[1][2]
           /\ \A c \in DOMAIN v \ {"params"} :
                v[c].vals = heap0[scopes[1]].variables[c].vals
  /\ (pc = "done" /\ payload.init) =>
       /\ PutsOn(scopes[1]) =
            EntriesOf(trans_out_fn(payload.trans_out, payload.repacked[1][1]))
              \cup EntriesOf(payload.repacked[1][2])
       /\ \A o \in OuterIds \ {scopes[1]} : heap[o].variables = heap0[o].variables

\* A call with init has returned after two runs that each wrote the target
\* and a non-target collection, with both functions of the caller marking.
InitRanTwice ==
  /\ pc = "done" /\ payload.init /\ payload.runs = 2
  /\ payload.body = FnKinds
  /\ payload.trans_in = "mark" /\ payload.trans_out = "mark"
  /\ payload.init_repacked[1][1] # EmptyDict
  /\ payload.init_repacked[1][2] # EmptyDict
  /\ heap[scopes[1]].variables["state"].vals["w"]
       = 1 - heap0[scopes[1]].variables["state"].vals["w"]
  /\ <<"params", "v", 0>> \in PutsOn(scopes[1])

\* ----------------------------------------------------- claims on SpecVmap

\* Collection c is matched by an entry of variable_axes with the given tag.
Tagged(c, tag) ==
  \E k \in 1..Len(payload.variable_axes) :
     /\ payload.variable_axes[k].tag = tag
     /\ in_filter(payload.variable_axes[k].filter, c)

InOnly(c) == Tagged(c, "In") /\ ~Tagged(c, "") /\ ~Tagged(c, "Out")

OutOnly(c) == Tagged(c, "Out") /\ ~Tagged(c, "") /\ ~Tagged(c, "In")

\* The inner root scopes of the call, in the order of the outer scopes.
InnerRootsOfCall == RootsOfTree(heap, payload.tree)

SeenAt(i, s, k, kind) == payload.mapped_rngs[i][s][k][kind]

\* C16: a stream under a filter whose split flag is true is replaced by
\* d_axis_size values derived from it and mapped over axis 0, so that index i
\* sees the i-th of them and no two indices see the same value; a stream
\* whose flag is false is passed with axis None, so that every index sees the
\* value pack drew for it.
C16_RngSplitPolicy ==
  (pc = "payload" /\ payload.phase \in {"run", "repack"}) =>
    /\ Len(payload.mapped_rngs) = payload.d_axis_size
    /\ \A s \in 1..Len(rng_groups_xs) :
         \A k \in 1..Len(rng_groups_xs[s]) :
            \A kind \in DOMAIN rng_groups_xs[s][k] :
               IF payload.split_rngs[k].axis
               THEN /\ Len(payload.rng_groups_xs[s][k][kind]) = payload.d_axis_size
                    /\ \A i, j \in 1..payload.d_axis_size :
                         i # j => SeenAt(i, s, k, kind) # SeenAt(j, s, k, kind)
                    /\ \A i \in 1..payload.d_axis_size :
                         /\ SeenAt(i, s, k, kind) = payload.rng_groups_xs[s][k][kind][i]
                         /\ SeenAt(i, s, k, kind) = rng_groups_xs[s][k][kind] \o <<i>>
               ELSE /\ payload.rng_groups_xs[s][k][kind] = rng_groups_xs[s][k][kind]
                    /\ \A i \in 1..payload.d_axis_size :
                         SeenAt(i, s, k, kind) = rng_groups_xs[s][k][kind]

\* The mapped function of a call over two scopes runs with a split stream on
\* an axis of size 3: the three indices see three different values.
SplitThreeWays ==
  /\ pc = "payload" /\ payload.phase = "run"
  /\ Len(scopes) = 2 /\ payload.d_axis_size = 3
  /\ payload.split_rngs[1].axis
  /\ "dropout" \in DOMAIN rng_groups_xs[2][1]
  /\ Cardinality({SeenAt(i, 2, 1, "dropout") : i \in 1..3}) = 3

\* ------------------------------------------------------ claims on SpecJit

\* The positions the caller supplied.
SuppliedPositions ==
  IF j_static_argnums.iterable THEN SeqRange(j_static_argnums.items)
  ELSE {j_static_argnums.int}

\* C17, as stated: the set of static positions handed to jax.jit is {i + 1 : i in
\* static_argnums} for every position i the caller supplied, a single
\* integer being treated as a one-element list.
C17_JitStaticShift ==
  j_pc = "wrapped" => SeqRange(j_jitted) = {i + 1 : i \in SuppliedPositions}

\* C17, as the code has it: the set of static positions handed to jax.jit is
\* {i + 1 : i in static_argnums, i > 0}; position 0, the scope, is dropped.
C17_JitStaticShiftAboveZero ==
  j_pc = "wrapped" =>
    SeqRange(j_jitted) = {i + 1 : i \in {x \in SuppliedPositions : x > 0}}

\* jit was given static_argnums=0 and hands no static position to jax.jit.
JitDroppedPositionZero ==
  /\ j_pc = "wrapped" /\ ~j_static_argnums.iterable /\ j_static_argnums.int = 0
  /\ j_jitted = <<>>

\* ------------------------------------------------------ claims on SpecRef

\* The objects a dict of collections, and a tuple of groups, refer to.
RefsOf(d) == {d[c] : c \in DOMAIN d}

GroupRefs == UNION {RefsOf(r_groups[k]) : k \in 1..Len(r_groups)}

\* The variable groups pack hands to the payload, by content.
GroupsAtEntry ==
  FreezeInOnly(group_collections(OuterVariables(1, r_call.mutable), r_call.in),
               r_call.out)

\* C21: the collections of an inner scope are copies: no inner scope holds
\* an object of the outer scope or of the variable groups handed to the
\* payload, nor one of another inner scope, so that the outer collections and
\* the groups keep their content whatever is written to an inner scope, and
\* every scope_fn call given the groups starts from their content.
C21_NoAliasing ==
  r_pc \in {"payload", "failed", "done"} =>
    /\ Deref(r_store, r_outer) = OuterVariables(1, r_call.mutable)
    /\ [k \in 1..Len(r_groups) |-> Deref(r_store, r_groups[k])] = GroupsAtEntry
    /\ \A i \in 1..Len(r_inner) :
         /\ RefsOf(r_inner[i].variables) \cap (RefsOf(r_outer) \cup GroupRefs) = {}
         /\ \A j \in 1..Len(r_inner) :
              i # j => RefsOf(r_inner[i].variables) \cap RefsOf(r_inner[j].variables) = {}
    /\ (r_inner # <<>> /\ r_writes = 0) =>
         Deref(r_store, r_inner[Len(r_inner)].variables) = MergeGroups(GroupsAtEntry)

\* scope_fn has been called a second time after a write to the scope of the
\* first generation, on groups that hold the outer scope's own dicts.
SecondGenerationAfterWrite ==
  /\ r_pc = "payload" /\ Len(r_inner) = 2 /\ r_writes = 0
  /\ r_call.shared /\ GroupRefs \cap RefsOf(r_outer) # {}
  /\ Deref(r_store, r_inner[1].variables) # MergeGroups(GroupsAtEntry)

\* --------------------------------------------------- claims on SpecRepack

\* The topmost scope of tree t that is s or above it.
MaxParent(h, t, s) ==
  CHOOSE a \in SeqRange(t) :
     /\ IsSelfOrAncestor(h, a, s)
     /\ ~\E b \in SeqRange(t) : IsAncestor(h, b, a)

\* The paths of the scopes of tree t below their topmost scopes in t.
TreePaths(h, t) == [i \in 1..Len(t) |-> ChainDown(h, MaxParent(h, t, t[i]), t[i])]

\* The two lists of paths are equal position by position.
SamePaths(p, q) == Len(p) = Len(q) /\ \A i \in 1..Len(p) : p[i] = q[i]

\* repack has been called and has raised the given exception.
RepackRaised(value) ==
  payload.called /\ outcome.kind = "exception" /\ outcome.at = "payload"
    /\ outcome.value = value

\* C22: when the tree handed to repack can be deduplicated, the consistency
\* check fails with an assertion exactly when the paths of the tree differ
\* from the paths recorded for the outer tree, and passes otherwise; for the
\* tree scope_fn returned the check passes.
C22_RepackPathCheck ==
  payload.called =>
    /\ ~RepeatedDescendant(heap, payload.handed) =>
         /\ RepackRaised("AssertionError")
              <=> ~SamePaths(TreePaths(heap, payload.handed), TreePaths(heap0, tree))
         /\ ~RepackRaised("AssertionError") => payload.has_repacked
         /\ SamePaths(PathsOf(paths), TreePaths(heap0, tree))
    /\ payload.handed = payload.tree =>
         outcome.kind # "exception" /\ payload.has_repacked

\* repack was handed the tree of scope_fn with the scope below the root
\* replaced by the root, and the assertion failed.
AssertionOnModifiedTree ==
  /\ RepackRaised("AssertionError") /\ pc = "failed"
  /\ tree = <<1, 3>> /\ payload.handed # payload.tree
  /\ payload.handed[1] = payload.handed[2]

\* -------------------------------------------------- claims on SpecMutable

\* Some entry of out_variable_filters selects the name.
MatchesOutFilter(name) ==
  \E j \in 1..Len(filters.out) : in_filter(filters.out[j], name)

\* The root of the outer scope at position k of the tree permits mutation of
\* the name.
OuterRootPermits(k, name) == in_filter(heap0[TopOf(heap0, tree[k])].mutable, name)

\* The scope the payload holds at position k permits mutation of the name:
\* Scope.is_mutable_collection asks the filter of the scope's root.
InnerPermits(k, name) ==
  in_filter(heap[TopOf(heap, payload.tree[k])].mutable, name)

\* The inner root scopes scope_fn has created so far.
InnerRootScopes == {s \in 1..Len(heap) : heap[s].gen > 0 /\ heap[s].parent = None}

\* C23: an inner root scope created by scope_fn permits mutation of a name
\* exactly when some out filter selects the name and the root of the
\* corresponding outer scope permits it, a write through the inner scope is
\* refused as not mutable exactly when it does not, and with no out filter
\* no inner scope permits any mutation.
C23_InnerMutability ==
  /\ \A k \in 1..Len(payload.tree), c \in TrueFilter :
       InnerPermits(k, c) <=> (MatchesOutFilter(c) /\ OuterRootPermits(k, c))
  /\ \A s \in InnerRootScopes :
       \E k \in 1..Len(tree) :
          /\ heap[s].name = heap0[MaxParent(heap0, tree, tree[k])].name
          /\ heap[s].mutable
               = {c \in TrueFilter : MatchesOutFilter(c) /\ OuterRootPermits(k, c)}
  /\ payload.put_at # 0 =>
       (payload.put_err = "not mutable"
          <=> ~(MatchesOutFilter(payload.put_col)
                  /\ OuterRootPermits(payload.put_at, payload.put_col)))
  /\ filters.out = <<>> =>
       \A s \in 1..Len(heap) :
          heap[s].gen > 0 => heap[TopOf(heap, s)].mutable = {}

\* A write to a collection that an out filter selects and the outer root
\* permits went through on the inner scope of an outer scope whose own
\* filter permits nothing.
WriteUnderRootPermission ==
  /\ pc = "payload" /\ gen = 2 /\ tree = <<2>>
  /\ payload.put_at = 1 /\ payload.put_col = "state" /\ payload.put_err = ""
  /\ heap0[2].mutable = {} /\ heap0[1].mutable = ColNames
  /\ filters.out = <<{"state"}>>

\* -------------------------------------------- claims on SpecScanBroadcast

\* The step that ends an iteration of the loop: repack_fn has returned and
\* `scanned` hands its groups back.
IterationEnds == payload.phase = "repack" /\ payload'.phase = "loop"

\* The broadcast group of scope i as repack returned it in this iteration.
RepackedBroadcast(p, i) == Transpose(p.repacked)[1][i]

\* C24 as stated: the broadcast groups handed back by an iteration have the
\* key set of the broadcast groups the iteration was given.
C24_BroadcastKeysSame ==
  [][IterationEnds =>
       /\ Len(payload'.broadcast_vars) = Len(payload.broadcast_vars)
       /\ \A i \in 1..Len(payload.broadcast_vars) :
            DOMAIN payload'.broadcast_vars[i] = DOMAIN payload.broadcast_vars[i]]_vars

\* C24: the broadcast groups handed back by an iteration hold every
\* collection of the broadcast groups the iteration was given, a collection
\* missing from repack's broadcast output with its input value, and next to
\* them the collections repack returned, which may be new.
C24_BroadcastKeysKept ==
  [][IterationEnds =>
       /\ Len(payload'.broadcast_vars) = Len(payload.broadcast_vars)
       /\ \A i \in 1..Len(payload.broadcast_vars) :
            LET in_group  == payload.broadcast_vars[i]
                out_group == RepackedBroadcast(payload', i)
                handed    == payload'.broadcast_vars[i]
            IN  /\ DOMAIN in_group \subseteq DOMAIN handed
                /\ DOMAIN handed = DOMAIN in_group \cup DOMAIN out_group
                /\ \A col \in DOMAIN in_group \ DOMAIN out_group :
                     handed[col] = in_group[col]
                /\ \A col \in DOMAIN out_group : handed[col] = out_group[col]]_vars

\* After the first iteration over a scope without a collection "state", the
\* immutable "params" was missing from repack's output and is back in the
\* broadcast group, and the "state" the body created is there too.
BroadcastCollectionCreated ==
  /\ pc = "payload" /\ payload.phase = "loop" /\ payload.iter = 1
  /\ tree = <<2>> /\ Len(payload.broadcast_vars) = 1
  /\ DOMAIN variable_groups_xs[1][1] = {"params"}
  /\ "params" \notin DOMAIN RepackedBroadcast(payload, 1)
  /\ DOMAIN payload.broadcast_vars[1] = {"params", "state"}
  /\ payload.broadcast_vars[1]["params"] = variable_groups_xs[1][1]["params"]

====
